---- MODULE Spec2Model ----
(***************************************************************************)
(* A model of the ReactMini fiber reconciler (src/unnamed/part_001): the   *)
(* cooperative work loop, the reconciler, the committer, the state and     *)
(* effect hooks and the host (DOM) tree they act on.                       *)
(*                                                                         *)
(* Objects of the program live in arenas: a fiber is an index into the     *)
(* sequence `fibers`, a host node an index into `host`; 0 is null.  Object *)
(* identity of the program is index equality in the model.  A callback     *)
(* created by a component function is a record naming the fiber whose      *)
(* render created it, so two renders never produce the same callback.      *)
(***************************************************************************)
EXTENDS Integers, Sequences, FiniteSets, TLC

VARIABLES
    fibers,          \* arena of fiber objects (every fiber ever created)
    host,            \* arena of host nodes; host[Container] is the container
    nextUnitOfWork,  \* part_001:109
    wipRoot,         \* part_001:111
    currentRoot,     \* part_001:115
    deletions,       \* part_001:117
    wipFiber,        \* part_001:121
    hookIndex,       \* part_001:123
    commitCounter,   \* part_001:125
    pendingSlices,   \* idle callbacks requested and not yet run
    \* ---- history variables (observations, never read by the program) ----
    passes,          \* number of passes started so far
    abandoned,       \* number of passes superseded before they committed
    passStart,       \* the program state right after the current pass began
    commitLog,       \* one record per commitRoot call, in order
    hostAtCommit,    \* the host arena as the last commitRoot left it
    renderOps,       \* host operations applied by the last step outside commitRoot
    commitOps,       \* host operations applied by the last commitRoot
    effectLog,       \* effect callbacks and cleanups called by the last commit
    cleanupLog,      \* the calls of cleanup functions so far, in order
    lastEvent        \* what the last step was

vars == <<fibers, host, nextUnitOfWork, wipRoot, currentRoot, deletions, wipFiber,
          hookIndex, commitCounter, pendingSlices, passes, abandoned, passStart, commitLog,
          hostAtCommit, renderOps, commitOps, effectLog, cleanupLog, lastEvent>>

Null == 0
Container == 1

\* ------------------------------------------------------------------ bounds
MaxPasses == 2        \* passes (render calls and accepted updates) started in a run
MaxAbandoned == 1     \* passes superseded by a newer pass before they committed
MaxBudget == 2        \* units of work a slice performs before the probe reports < 1
MaxUpdates == 2       \* updates accepted in a run of the counter scenario
MaxChildren == 3      \* length of the description lists handed to reconcileChildren

\* ------------------------------------------------------------------ values
\* JavaScript values that reach the host: strings, numbers and callbacks.
Str(s) == [s |-> s]
Num(n) == [n |-> n]
\* An action handed to an updater: a literal value or a function of the old state.
Lit(v) == [lit |-> v]
Fn(name) == [fn |-> name]
\* The callback () => setState(action) created while fiber f rendered; setState is
\* the updater of the hook object fibers[f].hooks[k].
Updater(f, k, action) == [fiber |-> f, hook |-> k, action |-> action]

RECURSIVE SeqFilter(_, _)
SeqFilter(s, keep) ==
    IF s = <<>> THEN <<>>
    ELSE (IF Head(s) \in keep THEN <<Head(s)>> ELSE <<>>) \o SeqFilter(Tail(s), keep)

RECURSIVE SeqRemove(_, _)
SeqRemove(s, x) ==
    IF s = <<>> THEN <<>>
    ELSE (IF Head(s) = x THEN <<>> ELSE <<Head(s)>>) \o SeqRemove(Tail(s), x)

Range(s) == {s[i] : i \in DOMAIN s}
\* How often x occurs in the sequence s.
Count(s, x) == Cardinality({i \in DOMAIN s : s[i] = x})
IndexOf(s, x) == CHOOSE i \in DOMAIN s : s[i] = x

\* In the operators below, CHOOSE r \in {e(x) : x \in {v}} : TRUE is e(v): the
\* value of one statement, v, bound to a name for the statements that follow.

\* ------------------------------------------------------------- descriptions
\* createTextElement, part_001:37-45
createTextElement(text) ==
    [type |-> "TEXT_ELEMENT", props |-> [nodeValue |-> text, children |-> <<>>]]

\* typeof child === 'object': descriptions are objects, strings and numbers are not
IsObject(child) == "type" \in DOMAIN child

\* createElement, part_001:27-35
createElement(type, props, children) ==
    [type |-> type,
     props |-> ("children" :> [i \in DOMAIN children |->
                                  IF IsObject(children[i]) THEN children[i]
                                  ELSE createTextElement(children[i])]) @@ props]

NoProps == [x \in {} |-> Null]

\* Attribute names in the order Object.keys lists them (insertion order: the
\* attributes of the JSX tag, then children).
PropKeys == <<"nodeValue", "style", "onClick", "__source", "__self", "children">>
KeysOf(props) == SeqFilter(PropKeys, DOMAIN props)

\* isProperty without the exclusion of children.
isProperty_withChildren(key) == key # "__source" /\ key # "__self"

\* isProperty, part_001:48
isProperty(key) == key # "children" /\ key # "__source" /\ key # "__self"
\* isEvent, part_001:50: key.startsWith('on')
isEvent(key) == key \in {"onClick"}
\* name.toLowerCase().substring(2), part_001:67 and :94
EventType(name) == CASE name = "onClick" -> "click"
\* isGone, part_001:52
isGone(prev, next, key) == ~(key \in DOMAIN next)
\* isNew that takes every key of the next props for new.
isNew_everyKey(prev, next, key) == key \in DOMAIN next

\* isNew, part_001:54: prev[key] !== next[key]; a missing key reads undefined
isNew(prev, next, key) ==
    IF key \in DOMAIN prev /\ key \in DOMAIN next THEN prev[key] # next[key]
    ELSE (key \in DOMAIN prev) # (key \in DOMAIN next)

\* ---------------------------------------------------------------- host tree
\* A host node: its tag, the properties written on it, the listeners registered
\* on it (the DOM keeps at most one registration per type and callback), its
\* children in order and its parent.
HostNode(tag, attrs) ==
    [tag |-> tag, attrs |-> attrs, listeners |-> {}, children |-> <<>>, parent |-> Null]

\* One host mutation, as recorded in the operation logs.
HostOp(op, node, target, name) == [op |-> op, node |-> node, target |-> target, name |-> name]

\* The program state the operations below transform: the module-level variables
\* of part_001:109-125 with the two arenas, the log of host mutations applied so
\* far in the running step, whether an exception is propagating, the log of
\* the callbacks called in the running step and, for each pass an updater
\* started in it, whether a pass was in progress then.
Prog == [fibers |-> fibers, host |-> host, nextUnitOfWork |-> nextUnitOfWork,
         wipRoot |-> wipRoot, currentRoot |-> currentRoot, deletions |-> deletions,
         wipFiber |-> wipFiber, hookIndex |-> hookIndex, commitCounter |-> commitCounter,
         log |-> <<>>, thrown |-> FALSE, calls |-> <<>>, started |-> <<>>]

Logged(S, op) == [S EXCEPT !.log = Append(@, op)]

\* dom[name] = value, part_001:77 and :86
SetProperty(S, node, name, value) ==
    Logged([S EXCEPT !.host[node].attrs = (name :> value) @@ @],
           HostOp("set", node, Null, name))

\* dom.addEventListener(eventType, callback), part_001:95
AddEventListener(S, node, type, cb) ==
    Logged([S EXCEPT !.host[node].listeners = @ \cup {<<type, cb>>}],
           HostOp("addEventListener", node, Null, type))

\* dom.removeEventListener(eventType, callback), part_001:68
RemoveEventListener(S, node, type, cb) ==
    Logged([S EXCEPT !.host[node].listeners = @ \ {<<type, cb>>}],
           HostOp("removeEventListener", node, Null, type))

Detach(h, node) ==
    IF h[node].parent = Null THEN h
    ELSE [h EXCEPT ![h[node].parent].children = SeqRemove(@, node),
                   ![node].parent = Null]

InsertAt(s, x, anchor) ==
    IF anchor = Null THEN Append(s, x)
    ELSE LET i == IndexOf(s, anchor)
         IN SubSeq(s, 1, i - 1) \o <<x>> \o SubSeq(s, i, Len(s))

\* domParent.insertBefore(node, anchor), part_001:242: a null anchor appends; an
\* anchor that is not a child of domParent throws NotFoundError.
InsertBefore(S, parent, node, anchor) ==
    IF anchor # Null /\ anchor \notin Range(S.host[parent].children)
    THEN [S EXCEPT !.thrown = TRUE]
    ELSE LET h == Detach(S.host, node)
         IN Logged([S EXCEPT !.host = [h EXCEPT ![parent].children = InsertAt(@, node, anchor),
                                                ![node].parent = parent]],
                   HostOp("insertBefore", parent, node, ""))

\* domParent.removeChild(node), part_001:201: throws when node is no child of it.
RemoveChild(S, parent, node) ==
    IF node \notin Range(S.host[parent].children)
    THEN [S EXCEPT !.thrown = TRUE]
    ELSE Logged([S EXCEPT !.host = Detach(@, node)], HostOp("removeChild", parent, node, ""))

\* The first pass of updateDom with the filter !(key in nextProps) alone: a
\* binding whose callback changed is not removed.
RECURSIVE RemoveListeners_goneOnly(_, _, _, _, _)
RemoveListeners_goneOnly(S, dom, prev, next, keys) ==
    IF keys = <<>> THEN S
    ELSE LET key == Head(keys)
             S1 == IF isEvent(key) /\ ~(key \in DOMAIN next)
                   THEN RemoveEventListener(S, dom, EventType(key), prev[key])
                   ELSE S
         IN RemoveListeners_goneOnly(S1, dom, prev, next, Tail(keys))

\* updateDom, part_001:61-97: the four passes over the keys, each a forEach.
RECURSIVE RemoveListeners(_, _, _, _, _)
RemoveListeners(S, dom, prev, next, keys) ==
    IF keys = <<>> THEN S
    ELSE LET key == Head(keys)
             S1 == IF isEvent(key) /\ (~(key \in DOMAIN next) \/ isNew(prev, next, key))
                   THEN RemoveEventListener(S, dom, EventType(key), prev[key])
                   ELSE S
         IN RemoveListeners(S1, dom, prev, next, Tail(keys))

RECURSIVE RemoveProperties(_, _, _, _, _)
RemoveProperties(S, dom, prev, next, keys) ==
    IF keys = <<>> THEN S
    ELSE LET key == Head(keys)
             S1 == IF isProperty(key) /\ isGone(prev, next, key)
                   THEN SetProperty(S, dom, key, Str(""))
                   ELSE S
         IN RemoveProperties(S1, dom, prev, next, Tail(keys))

RECURSIVE SetProperties(_, _, _, _, _)
SetProperties(S, dom, prev, next, keys) ==
    IF keys = <<>> THEN S
    ELSE LET key == Head(keys)
             S1 == IF isProperty(key) /\ isNew(prev, next, key)
                   THEN SetProperty(S, dom, key, next[key])
                   ELSE S
         IN SetProperties(S1, dom, prev, next, Tail(keys))

RECURSIVE AddListeners(_, _, _, _, _)
AddListeners(S, dom, prev, next, keys) ==
    IF keys = <<>> THEN S
    ELSE LET key == Head(keys)
             S1 == IF isEvent(key) /\ isNew(prev, next, key)
                   THEN AddEventListener(S, dom, EventType(key), next[key])
                   ELSE S
         IN AddListeners(S1, dom, prev, next, Tail(keys))

\* updateDom that writes a property only on a node that has none yet: a
\* changed value of an existing property is not written.
updateDom_newNodesOnly(S, dom, prevProps, nextProps) ==
    LET S1 == RemoveListeners(S, dom, prevProps, nextProps, KeysOf(prevProps))
        S2 == RemoveProperties(S1, dom, prevProps, nextProps, KeysOf(prevProps))
        S3 == IF KeysOf(prevProps) = <<>>
              THEN SetProperties(S2, dom, prevProps, nextProps, KeysOf(nextProps))
              ELSE S2
    IN AddListeners(S3, dom, prevProps, nextProps, KeysOf(nextProps))

\* updateDom, part_001:61-97
updateDom(S, dom, prevProps, nextProps) ==
    LET S1 == RemoveListeners(S, dom, prevProps, nextProps, KeysOf(prevProps))
        S2 == RemoveProperties(S1, dom, prevProps, nextProps, KeysOf(prevProps))
        S3 == SetProperties(S2, dom, prevProps, nextProps, KeysOf(nextProps))
    IN AddListeners(S3, dom, prevProps, nextProps, KeysOf(nextProps))

\* createDom as part_002:93-107 has it: the new node gets its properties when it
\* is created, during the walk.
RECURSIVE WriteProperties(_, _, _, _)
WriteProperties(S, dom, props, keys) ==
    IF keys = <<>> THEN S
    ELSE WriteProperties(IF isProperty(Head(keys))
                         THEN SetProperty(S, dom, Head(keys), props[Head(keys)]) ELSE S,
                         dom, props, Tail(keys))

createDom_writesProperties(S, f) ==
    LET node == IF S.fibers[f].type = "TEXT_ELEMENT"
                THEN HostNode("#text", [nodeValue |-> Str("")])
                ELSE HostNode(S.fibers[f].type, NoProps)
        S1 == [S EXCEPT !.host = Append(@, node), !.fibers[f].dom = Len(S.host) + 1]
    IN WriteProperties(S1, Len(S.host) + 1, S.fibers[f].props, KeysOf(S.fibers[f].props))

\* createDom, part_001:100-105: creates a detached node and writes nothing on it.
\* document.createTextNode('') has the empty string as its nodeValue.
createDom(S, f) ==
    LET node == IF S.fibers[f].type = "TEXT_ELEMENT"
                THEN HostNode("#text", [nodeValue |-> Str("")])
                ELSE HostNode(S.fibers[f].type, NoProps)
    IN [S EXCEPT !.host = Append(@, node), !.fibers[f].dom = Len(S.host) + 1]

\* ------------------------------------------------------------------- fibers
\* A fiber object (type RElement, part_001:1-23).  A field the program leaves
\* undefined reads as Null (links), "" (effectTag) or <<>> (hooks,
\* effectCallbacks).
Fiber(type, props, dom, parent, alternate, effectTag) ==
    [type |-> type, props |-> props, dom |-> dom, parent |-> parent, child |-> Null,
     sibling |-> Null, alternate |-> alternate, effectTag |-> effectTag, hooks |-> <<>>,
     effectCallbacks |-> <<>>]

Undefined == "undefined"

\* The component functions the application passes in (the inputs of the model).
Components == {"App", "Counter", "Panel", "Watcher", "Eager", "Faulty", "Blinker"}
\* fiber.type instanceof Function, part_001:283
IsFunction(type) == type \in Components

\* The literal the second binding of Counter hands to its updater.
ResetValue == 2

\* The initial values of the useState calls a component makes, in call order.
ComponentHooks(type) ==
    CASE type = "Counter" -> <<0>>
      [] type = "Panel" -> <<0>>
      [] type = "Eager" -> <<0>>
      [] OTHER -> <<>>

\* A dependency list handed to useEffect, and the absence of one.
Deps(list) == [given |-> TRUE, list |-> list]
NoDeps == [given |-> FALSE, list |-> <<>>]

\* The callback a component hands to useEffect: a function the render of fiber
\* f created.
Callback(f, name) == [fiber |-> f, name |-> name]

\* The cleanup function the effect callback cb returned, and no cleanup.
Cleanup(cb) == [of |-> cb]
NoCleanup == [none |-> TRUE]

\* The useEffect calls a component makes after its useState calls, in call
\* order, when fiber f renders with the given props and state values.
\*   Panel:   the effect of demos/demo01/bootstrap.tsx:11-15, without
\*            dependency list, whose callback calls setCount(2)
\*   Watcher: the effect of bootstrap.tsx:18-29, with a dependency list and a
\*            callback that returns a cleanup
\*   Blinker: that effect with a callback that returns a cleanup when the prop
\*            is 1 and returns nothing otherwise
ComponentEffects(type, props, f, vals) ==
    CASE type = "Panel" -> << [callback |-> Callback(f, "reset"), deps |-> NoDeps] >>
      [] type = "Watcher" -> << [callback |-> Callback(f, "watch"),
                                 deps |-> Deps(<<Num(1), props.dep>>)] >>
      [] type = "Blinker" -> << [callback |-> Callback(f, "blink"),
                                 deps |-> Deps(<<props.dep>>)] >>
      [] OTHER -> <<>>

\* The updater calls a component function makes itself while it runs, after
\* its hook calls: <<hook index, action>>.
\*   Eager: a component that calls setCount(2) in its body
ComponentUpdates(type) ==
    CASE type = "Eager" -> << <<1, Lit(ResetValue)>> >>
      [] OTHER -> <<>>

\* Whether the component function throws instead of returning.
\*   Faulty: a component that throws whenever it is called
ComponentThrows(type) == type = "Faulty"

\* The description a component function returns when fiber f renders with the
\* given props and the values its useState calls returned.
\*   Counter: the App of part_000:3-13 and of demos/demo01/bootstrap.tsx:5-41,
\*            with the function action of the one and the literal of the other
\*   App:     a component that returns a component, as in the component demo
\*   Panel:   the App of bootstrap.tsx:5-38 with its effect, over a Watcher
\*   Watcher: a component that displays its prop under a p
\*   Eager:   a component that displays its state under an h1
\*   Blinker: a component that displays its prop under a p
ComponentBody(type, props, f, vals) ==
    CASE type = "Counter" ->
            createElement("div", NoProps,
              << createElement("h1", [onClick |-> Updater(f, 1, Fn("inc"))],
                               <<Num(vals[1])>>),
                 createElement("h2", [onClick |-> Updater(f, 1, Lit(ResetValue))], <<>>) >>)
      [] type = "App" -> createElement("Counter", NoProps, <<>>)
      [] type = "Panel" ->
            createElement("div", NoProps,
              << createElement("h1", [onClick |-> Updater(f, 1, Fn("inc"))],
                               <<Num(vals[1])>>),
                 createElement("Watcher", [dep |-> Num(vals[1])], <<>>) >>)
      [] type = "Watcher" -> createElement("p", NoProps, <<props.dep>>)
      [] type = "Blinker" -> createElement("p", NoProps, <<props.dep>>)
      [] type = "Eager" -> createElement("h1", NoProps, <<Num(vals[1])>>)

\* Calling a function action with the previous state.
CallFn(name, prev) ==
    CASE name = "inc" -> prev + 1
      [] name = "keep" -> prev

\* typeof action === 'function' ? action(state) : action, part_001:399-403, :411-415
ApplyAction(state, action) ==
    IF "fn" \in DOMAIN action THEN CallFn(action.fn, state) ELSE action.lit

\* actions.forEach(...), part_001:397-404
RECURSIVE ApplyActions(_, _)
ApplyActions(state, actions) ==
    IF actions = <<>> THEN state
    ELSE ApplyActions(ApplyAction(state, Head(actions)), Tail(actions))

\* The loop of reconcileChildren with the condition index < elements.length
\* alone: it stops at the end of the new list, whatever is left of the old chain.
RECURSIVE reconcileLoop_stopsAtListEnd(_, _, _, _, _, _)
reconcileLoop_stopsAtListEnd(S, w, elements, index, oldFiber, prevSibling) ==
    IF ~(index <= Len(elements)) THEN S
    ELSE
      LET hasElement == index <= Len(elements)
          element == elements[index]
          old == S.fibers[oldFiber]
          sameType == oldFiber # Null /\ hasElement /\ element.type = old.type
          newFiber == IF hasElement THEN Len(S.fibers) + 1 ELSE Null
          S1 == IF sameType
                THEN [S EXCEPT !.fibers =
                        Append(@, Fiber(old.type, element.props, old.dom, w, oldFiber, "UPDATE"))]
                ELSE IF hasElement
                THEN [S EXCEPT !.fibers =
                        Append(@, Fiber(element.type, element.props, Null, w, Null, "PLACEMENT"))]
                ELSE S
          S2 == IF ~sameType /\ oldFiber # Null
                THEN [S1 EXCEPT !.fibers[oldFiber].effectTag = "DELETION",
                                !.deletions = Append(@, oldFiber)]
                ELSE S1
          nextOld == IF oldFiber # Null THEN old.sibling ELSE Null
          S3 == IF index = 1
                THEN [S2 EXCEPT !.fibers[w].child = newFiber]
                ELSE IF hasElement /\ prevSibling # Null
                THEN [S2 EXCEPT !.fibers[prevSibling].sibling = newFiber]
                ELSE S2
      IN CHOOSE r \in {reconcileLoop_stopsAtListEnd(T, w, elements, index + 1, nextOld, newFiber)
                       : T \in {S3}} : TRUE

\* The loop of reconcileChildren without the assignment of part_001:492: the
\* old fiber is pushed on deletions with the tag it has.
RECURSIVE reconcileLoop_pushesUntagged(_, _, _, _, _, _)
reconcileLoop_pushesUntagged(S, w, elements, index, oldFiber, prevSibling) ==
    IF ~(index <= Len(elements) \/ oldFiber # Null) THEN S
    ELSE
      LET hasElement == index <= Len(elements)
          element == elements[index]
          old == S.fibers[oldFiber]
          sameType == oldFiber # Null /\ hasElement /\ element.type = old.type
          newFiber == IF hasElement THEN Len(S.fibers) + 1 ELSE Null
          S1 == IF sameType
                THEN [S EXCEPT !.fibers =
                        Append(@, Fiber(old.type, element.props, old.dom, w, oldFiber, "UPDATE"))]
                ELSE IF hasElement
                THEN [S EXCEPT !.fibers =
                        Append(@, Fiber(element.type, element.props, Null, w, Null, "PLACEMENT"))]
                ELSE S
          S2 == IF ~sameType /\ oldFiber # Null
                THEN [S1 EXCEPT !.deletions = Append(@, oldFiber)]
                ELSE S1
          nextOld == IF oldFiber # Null THEN old.sibling ELSE Null
          S3 == IF index = 1
                THEN [S2 EXCEPT !.fibers[w].child = newFiber]
                ELSE IF hasElement /\ prevSibling # Null
                THEN [S2 EXCEPT !.fibers[prevSibling].sibling = newFiber]
                ELSE S2
      IN CHOOSE r \in {reconcileLoop_pushesUntagged(T, w, elements, index + 1, nextOld, newFiber)
                       : T \in {S3}} : TRUE

\* reconcileChildren, part_001:450-510.  index counts from 1 here.
RECURSIVE reconcileLoop(_, _, _, _, _, _)
reconcileLoop(S, w, elements, index, oldFiber, prevSibling) ==
    IF ~(index <= Len(elements) \/ oldFiber # Null) THEN S
    ELSE
      LET hasElement == index <= Len(elements)
          element == elements[index]
          old == S.fibers[oldFiber]
          sameType == oldFiber # Null /\ hasElement /\ element.type = old.type
          newFiber == IF hasElement THEN Len(S.fibers) + 1 ELSE Null
          S1 == IF sameType
                THEN [S EXCEPT !.fibers =
                        Append(@, Fiber(old.type, element.props, old.dom, w, oldFiber, "UPDATE"))]
                ELSE IF hasElement
                THEN [S EXCEPT !.fibers =
                        Append(@, Fiber(element.type, element.props, Null, w, Null, "PLACEMENT"))]
                ELSE S
          S2 == IF ~sameType /\ oldFiber # Null
                THEN [S1 EXCEPT !.fibers[oldFiber].effectTag = "DELETION",
                                !.deletions = Append(@, oldFiber)]
                ELSE S1
          nextOld == IF oldFiber # Null THEN old.sibling ELSE Null
          S3 == IF index = 1
                THEN [S2 EXCEPT !.fibers[w].child = newFiber]
                ELSE IF hasElement /\ prevSibling # Null
                THEN [S2 EXCEPT !.fibers[prevSibling].sibling = newFiber]
                ELSE S2
      IN CHOOSE r \in {reconcileLoop(T, w, elements, index + 1, nextOld, newFiber)
                       : T \in {S3}} : TRUE

\* The child loop as part_003:137-159 has it: every child is built anew and the
\* old fibers are not looked at.
reconcileChildren_fromScratch(S, w, elements) ==
    reconcileLoop(S, w, elements, 1, Null, Null)

reconcileChildren(S, w, elements) ==
    LET alt == S.fibers[w].alternate
    IN reconcileLoop(S, w, elements, 1,
                     IF alt # Null THEN S.fibers[alt].child ELSE Null, Null)

\* setState without the comparison of part_001:418-422.
setState_withoutBailOut(S, f, k, action) ==
    LET S1 == [S EXCEPT !.fibers[f].hooks[k].queue = Append(@, action)]
        root == Len(S1.fibers) + 1
    IN IF S1.currentRoot = Null THEN [S1 EXCEPT !.thrown = TRUE]
       ELSE [S1 EXCEPT !.fibers = Append(@, Fiber(Undefined,
                                                 S1.fibers[S1.currentRoot].props,
                                                 S1.fibers[S1.currentRoot].dom,
                                                 Null, S1.currentRoot, "")),
                       !.wipRoot = root,
                       !.nextUnitOfWork = root,
                       !.deletions = <<>>,
                       !.started = Append(@, S.wipRoot # Null)]

\* setState without line 434: the deletions list is left as it is.
setState_keepsDeletions(S, f, k, action) ==
    LET hook == S.fibers[f].hooks[k]
        root == Len(S.fibers) + 1
    IN IF hook.state = ApplyAction(hook.state, action) THEN S
       ELSE IF S.currentRoot = Null
       THEN [S EXCEPT !.fibers[f].hooks[k].queue = Append(@, action), !.thrown = TRUE]
       ELSE [S EXCEPT !.fibers = Append([@ EXCEPT ![f].hooks[k].queue = Append(@, action)],
                                        Fiber(Undefined, S.fibers[S.currentRoot].props,
                                              S.fibers[S.currentRoot].dom, Null,
                                              S.currentRoot, "")),
                      !.wipRoot = root,
                      !.nextUnitOfWork = root,
                      !.started = Append(@, S.wipRoot # Null)]

\* setState that starts the new pass on the committed root itself instead of
\* on a new root object.
setState_reusesCurrentRoot(S, f, k, action) ==
    LET hook == S.fibers[f].hooks[k]
    IN IF hook.state = ApplyAction(hook.state, action) THEN S
       ELSE IF S.currentRoot = Null
       THEN [S EXCEPT !.fibers[f].hooks[k].queue = Append(@, action), !.thrown = TRUE]
       ELSE [S EXCEPT !.fibers[f].hooks[k].queue = Append(@, action),
                      !.wipRoot = S.currentRoot,
                      !.nextUnitOfWork = S.currentRoot,
                      !.deletions = <<>>,
                      !.started = Append(@, S.wipRoot # Null)]

\* setState, the updater useState returns for the hook object fibers[f].hooks[k],
\* part_001:407-435.  Reading currentRoot!.dom of a null currentRoot throws
\* after the action has been queued.
setState(S, f, k, action) ==
    LET hook == S.fibers[f].hooks[k]
        oldState == hook.state
        newState == ApplyAction(oldState, action)
    IN IF oldState = newState THEN S
       ELSE LET S1 == [S EXCEPT !.fibers[f].hooks[k].queue = Append(@, action)]
                root == Len(S1.fibers) + 1
            IN IF S1.currentRoot = Null THEN [S1 EXCEPT !.thrown = TRUE]
               ELSE [S1 EXCEPT !.fibers = Append(@, Fiber(Undefined,
                                                         S1.fibers[S1.currentRoot].props,
                                                         S1.fibers[S1.currentRoot].dom,
                                                         Null, S1.currentRoot, "")),
                               !.wipRoot = root,
                               !.nextUnitOfWork = root,
                               !.deletions = <<>>,
                               !.started = Append(@, S.wipRoot # Null)]

\* useState that applies only the update queued last.
useState_lastUpdateOnly(S, initial) ==
    LET w == S.wipFiber
        alt == S.fibers[w].alternate
        hasOld == alt # Null /\ S.hookIndex + 1 <= Len(S.fibers[alt].hooks)
        oldHook == S.fibers[alt].hooks[S.hookIndex + 1]
        last == IF hasOld /\ oldHook.queue # <<>>
                THEN <<oldHook.queue[Len(oldHook.queue)]>> ELSE <<>>
        hook == [state |-> ApplyActions(IF hasOld THEN oldHook.state ELSE initial, last),
                 queue |-> <<>>]
    IN [S EXCEPT !.fibers[w].hooks = Append(@, hook), !.hookIndex = @ + 1]

\* useState that empties the queue of the old hook object once it has applied
\* its actions.
useState_consumesQueue(S, initial) ==
    LET w == S.wipFiber
        alt == S.fibers[w].alternate
        hasOld == alt # Null /\ S.hookIndex + 1 <= Len(S.fibers[alt].hooks)
        oldHook == S.fibers[alt].hooks[S.hookIndex + 1]
        hook == [state |-> ApplyActions(IF hasOld THEN oldHook.state ELSE initial,
                                        IF hasOld THEN oldHook.queue ELSE <<>>),
                 queue |-> <<>>]
        S1 == IF hasOld THEN [S EXCEPT !.fibers[alt].hooks[S.hookIndex + 1].queue = <<>>]
              ELSE S
    IN [S1 EXCEPT !.fibers[w].hooks = Append(@, hook), !.hookIndex = @ + 1]

\* useState up to the point where it returns, part_001:381-404 and :437-443; the
\* returned value is the state of the hook pushed last.
useState(S, initial) ==
    LET w == S.wipFiber
        alt == S.fibers[w].alternate
        hasOld == alt # Null /\ S.hookIndex + 1 <= Len(S.fibers[alt].hooks)
        oldHook == S.fibers[alt].hooks[S.hookIndex + 1]
        hook == [state |-> ApplyActions(IF hasOld THEN oldHook.state ELSE initial,
                                        IF hasOld THEN oldHook.queue ELSE <<>>),
                 queue |-> <<>>]
    IN [S EXCEPT !.fibers[w].hooks = Append(@, hook), !.hookIndex = @ + 1]

RECURSIVE CallHooks(_, _)
CallHooks(S, initials) ==
    IF initials = <<>> THEN S
    ELSE CHOOSE r \in {CallHooks(T, Tail(initials)) : T \in {useState(S, Head(initials))}} : TRUE

\* hasDepsChanged that compares the lengths of the lists only.
hasDepsChanged_lengthOnly(prevDeps, nextDeps) ==
    IF ~prevDeps.given THEN TRUE
    ELSE IF ~nextDeps.given THEN TRUE
    ELSE Len(prevDeps.list) # Len(nextDeps.list)

\* hasDepsChanged, part_001:339-351
hasDepsChanged(prevDeps, nextDeps) ==
    IF ~prevDeps.given THEN TRUE
    ELSE IF ~nextDeps.given THEN TRUE
    ELSE IF Len(prevDeps.list) # Len(nextDeps.list) THEN TRUE
    ELSE \E i \in DOMAIN prevDeps.list : prevDeps.list[i] # nextDeps.list[i]

\* useEffect, part_001:353-379.  The queued entry refers to the hook object
\* by its place in the hooks of the fiber.
useEffect(S, callback, deps) ==
    LET w == S.wipFiber
        alt == S.fibers[w].alternate
        hasOld == alt # Null /\ S.hookIndex + 1 <= Len(S.fibers[alt].hooks)
        oldHook == S.fibers[alt].hooks[S.hookIndex + 1]
        hasChanged == hasDepsChanged(IF hasOld THEN oldHook.deps ELSE NoDeps, deps)
        newHook == [deps |-> deps, cleanup |-> IF hasOld THEN oldHook.cleanup ELSE NoCleanup]
        S1 == IF hasChanged
              THEN [S EXCEPT !.fibers[w].effectCallbacks =
                       Append(@, [callback |-> callback, hook |-> S.hookIndex + 1])]
              ELSE S
    IN [S1 EXCEPT !.fibers[w].hooks = Append(@, newHook), !.hookIndex = @ + 1]

RECURSIVE CallEffects(_, _)
CallEffects(S, effects) ==
    IF effects = <<>> THEN S
    ELSE CHOOSE r \in {CallEffects(T, Tail(effects))
                       : T \in {useEffect(S, Head(effects).callback, Head(effects).deps)}} : TRUE

\* The updater calls of the component function: each calls the setState of a
\* hook object the running render of fiber f made; an exception ends them.
RECURSIVE CallUpdates(_, _, _)
CallUpdates(S, f, updates) ==
    IF updates = <<>> \/ S.thrown THEN S
    ELSE CHOOSE r \in {CallUpdates(T, f, Tail(updates))
                       : T \in {setState(S, f, Head(updates)[1], Head(updates)[2])}} : TRUE

\* The values the useState calls of a component returned: the states of the
\* state hooks among hooks.
StateValues(hooks) ==
    [k \in {i \in DOMAIN hooks : "state" \in DOMAIN hooks[i]} |-> hooks[k].state]

\* updateFunctionComponent, part_001:320-333.  An exception thrown by the
\* component function leaves before reconcileChildren.
updateFunctionComponent(S, f) ==
    LET type == S.fibers[f].type
        S1 == [S EXCEPT !.wipFiber = f, !.fibers[f].hooks = <<>>, !.hookIndex = 0]
    IN CHOOSE r \in
         {LET vals == StateValues(S2.fibers[f].hooks)
              S3 == CallEffects(S2, ComponentEffects(type, S.fibers[f].props, f, vals))
              children == <<ComponentBody(type, S.fibers[f].props, f, vals)>>
          IN CHOOSE r4 \in {IF S4.thrown THEN S4 ELSE reconcileChildren(S4, f, children)
                            : S4 \in {IF ComponentThrows(type) THEN [S3 EXCEPT !.thrown = TRUE]
                                      ELSE CallUpdates(S3, f, ComponentUpdates(type))}} : TRUE
          : S2 \in {CallHooks(S1, ComponentHooks(type))}} : TRUE

\* updateHostComponent, part_001:308-315
updateHostComponent(S, f) ==
    CHOOSE r \in {reconcileChildren(S1, f, S1.fibers[f].props.children)
                  : S1 \in {IF S.fibers[f].dom = Null THEN createDom(S, f) ELSE S}} : TRUE

\* The end of performUnitOfWork without the climb: the sibling of the fiber
\* itself, or null.
NextSiblingUp_ownSiblingOnly(fs, nextFiber) ==
    IF nextFiber = Null THEN Null ELSE fs[nextFiber].sibling

\* The while loop of performUnitOfWork, part_001:296-304
RECURSIVE NextSiblingUp(_, _)
NextSiblingUp(fs, nextFiber) ==
    IF nextFiber = Null THEN Null
    ELSE IF fs[nextFiber].sibling # Null THEN fs[nextFiber].sibling
    ELSE NextSiblingUp(fs, fs[nextFiber].parent)

\* performUnitOfWork, part_001:282-305, with workLoop's assignment of its result
\* to nextUnitOfWork (part_001:260), which an exception skips.
performUnitOfWork(S, f) ==
    CHOOSE r \in
      {IF S1.thrown THEN S1
       ELSE [S1 EXCEPT !.nextUnitOfWork =
                IF S1.fibers[f].child # Null THEN S1.fibers[f].child
                ELSE NextSiblingUp(S1.fibers, f)]
       : S1 \in {IF IsFunction(S.fibers[f].type) THEN updateFunctionComponent(S, f)
                 ELSE updateHostComponent(S, f)}} : TRUE

\* ------------------------------------------------------------------- commit
\* One call of a callback, as the call log records it: what was called, and
\* what the program had done when it was: the host operations applied so far
\* in the commit, currentRoot and wipRoot.
Called(S, kind, fn, f, k) ==
    [S EXCEPT !.calls = Append(@, [kind |-> kind, fn |-> fn, fiber |-> f, hook |-> k,
                                   hostOps |-> Len(S.log), currentRoot |-> S.currentRoot,
                                   wipRoot |-> S.wipRoot])]

\* Whether the logged call is that of a cleanup function.
IsCleanupCall(call) == call.kind = "cleanup"

\* Whether the hook object has a cleanup: a state hook has no such field.
HasCleanup(hook) == "cleanup" \in DOMAIN hook /\ hook.cleanup # NoCleanup

\* node.hooks.forEach(hook => hook.cleanup && hook.cleanup()), part_001:179-185.
RECURSIVE CleanupsFrom(_, _, _)
CleanupsFrom(S, node, k) ==
    IF k > Len(S.fibers[node].hooks) THEN S
    ELSE CHOOSE r \in
           {CleanupsFrom(T, node, k + 1)
            : T \in {IF HasCleanup(S.fibers[node].hooks[k])
                     THEN Called(S, "cleanup", S.fibers[node].hooks[k].cleanup, node, k)
                     ELSE S}} : TRUE

RunCleanups(S, node) == CleanupsFrom(S, node, 1)

\* The traversal at the head of commitDeletion, part_001:177-198.  The result
\* says whether the traversal left the function through `return` (line 191) or
\* fell out of the outer loop with node = null.
RECURSIVE cleanupWalk(_, _, _)
RECURSIVE cleanupClimb(_, _, _)
cleanupWalk(S, fiber, node) ==
    IF node = Null THEN [S |-> S, returned |-> FALSE]
    ELSE CHOOSE r \in {IF S1.fibers[node].child # Null
                        THEN cleanupWalk(S1, fiber, S1.fibers[node].child)
                        ELSE cleanupClimb(S1, fiber, node)
                       : S1 \in {RunCleanups(S, node)}} : TRUE
cleanupClimb(S, fiber, node) ==
    IF node = Null THEN cleanupWalk(S, fiber, Null)
    ELSE IF node = fiber THEN [S |-> S, returned |-> TRUE]
    ELSE IF S.fibers[node].sibling # Null THEN cleanupWalk(S, fiber, S.fibers[node].sibling)
    ELSE cleanupClimb(S, fiber, S.fibers[node].parent)

\* commitDeletion, part_001:175-206.  The recursive call of line 204 runs the
\* whole function again on the child; it is reached only past the traversal.
RECURSIVE commitDeletion(_, _, _)
commitDeletion(S, fiber, domParent) ==
    CHOOSE r \in
      {IF w.returned THEN w.S
       ELSE IF w.S.fibers[fiber].dom # Null
       THEN RemoveChild(w.S, domParent, w.S.fibers[fiber].dom)
       ELSE IF w.S.fibers[fiber].child # Null
       THEN commitDeletion(w.S, w.S.fibers[fiber].child, domParent)
       ELSE w.S
       : w \in {cleanupWalk(S, fiber, fiber)}} : TRUE

\* let domParentFiber = fiber.parent; while (...) ..., part_001:215-220
RECURSIVE DomParentFiber(_, _)
DomParentFiber(fs, p) ==
    IF p # Null /\ fs[p].dom = Null THEN DomParentFiber(fs, fs[p].parent) ELSE p

\* The anchor search of the PLACEMENT branch, part_001:230-239
RECURSIVE Anchor(_, _)
Anchor(fs, nextSiblingFiber) ==
    IF nextSiblingFiber = Null THEN Null
    ELSE IF fs[nextSiblingFiber].dom # Null /\ fs[nextSiblingFiber].effectTag # "PLACEMENT"
    THEN fs[nextSiblingFiber].dom
    ELSE Anchor(fs, fs[nextSiblingFiber].sibling)

\* The PLACEMENT branch of commitWork with appendChild in the place of the
\* anchor search and insertBefore, as part_003:84 has it.
commitPlacement_appends(S, f) ==
    LET fiber == S.fibers[f]
        domParent == S.fibers[DomParentFiber(S.fibers, fiber.parent)].dom
    IN CHOOSE r \in
         {InsertBefore(S1, domParent, fiber.dom, Null)
          : S1 \in {updateDom(S, fiber.dom, [children |-> <<>>], fiber.props)}} : TRUE

\* The PLACEMENT branch of commitWork, part_001:224-242
commitPlacement(S, f) ==
    LET fiber == S.fibers[f]
        domParent == S.fibers[DomParentFiber(S.fibers, fiber.parent)].dom
    IN CHOOSE r \in
         {InsertBefore(S1, domParent, fiber.dom, Anchor(S.fibers, fiber.sibling))
          : S1 \in {updateDom(S, fiber.dom, [children |-> <<>>], fiber.props)}} : TRUE

\* commitWork, part_001:209-254.  The DELETION branch, the third the code
\* tests, returns (line 250); the others go on to the child and the sibling.
RECURSIVE commitWork(_, _)
commitWork(S, f) ==
    IF f = Null \/ S.thrown THEN S
    ELSE
      LET fiber == S.fibers[f]
          domParent == S.fibers[DomParentFiber(S.fibers, fiber.parent)].dom
      IN IF fiber.effectTag = "DELETION"
         THEN commitDeletion(S, f, domParent)
         ELSE CHOOSE r \in
                {commitWork(S4, fiber.sibling)
                 : S4 \in {commitWork(S3, fiber.child)
                           : S3 \in {IF fiber.effectTag = "PLACEMENT" /\ fiber.dom # Null
                                     THEN commitPlacement(S, f)
                                     ELSE IF fiber.effectTag = "UPDATE" /\ fiber.dom # Null
                                     THEN updateDom(S, fiber.dom, S.fibers[fiber.alternate].props,
                                                    fiber.props)
                                     ELSE S}}} : TRUE

\* deletions.forEach(commitWork), part_001:132
RECURSIVE commitEach(_, _)
commitEach(S, ds) ==
    IF ds = <<>> THEN S
    ELSE CHOOSE r \in {commitEach(T, Tail(ds)) : T \in {commitWork(S, Head(ds))}} : TRUE

\* commitRoot without line 144: wipRoot stays set after the commit.
commitRoot_keepsWipRoot(S) ==
    CHOOSE r \in
      {IF S2.thrown THEN S2
       ELSE [S2 EXCEPT !.commitCounter = @ + 1, !.currentRoot = S2.wipRoot]
       : S2 \in {commitWork(S1, S1.fibers[S1.wipRoot].child)
                 : S1 \in {commitEach(S, S.deletions)}}} : TRUE

\* commitRoot that clears the effect tags once the operations are applied.
commitRoot_clearsTags(S) ==
    CHOOSE r \in
      {IF S2.thrown THEN S2
       ELSE [S2 EXCEPT !.commitCounter = @ + 1, !.currentRoot = S2.wipRoot, !.wipRoot = Null,
                       !.fibers = [f \in DOMAIN S2.fibers |->
                                     [S2.fibers[f] EXCEPT !.effectTag = ""]]]
       : S2 \in {commitWork(S1, S1.fibers[S1.wipRoot].child)
                 : S1 \in {commitEach(S, S.deletions)}}} : TRUE

\* commitRoot, part_001:128-145.  An exception leaves the function before the
\* assignments of lines 140 and 144.
commitRoot(S) ==
    CHOOSE r \in
      {IF S2.thrown THEN S2
       ELSE [S2 EXCEPT !.commitCounter = @ + 1, !.currentRoot = S2.wipRoot, !.wipRoot = Null]
       : S2 \in {commitWork(S1, S1.fibers[S1.wipRoot].child)
                 : S1 \in {commitEach(S, S.deletions)}}} : TRUE

\* What calling the effect callback cb does and returns.
\*   reset: () => { setCount(2) }, the updater being the one the render that
\*          created the callback got from its first useState
\*   watch: () => { ...; return () => {...} }
\*   blink: () => { if (dep === 1) return () => {...} }, dep being the prop of
\*          the render that created the callback
CallbackBody(S, cb) ==
    CASE cb.name = "reset" ->
            [S |-> setState(S, cb.fiber, 1, Lit(ResetValue)), returns |-> NoCleanup]
      [] cb.name = "watch" -> [S |-> S, returns |-> Cleanup(cb)]
      [] cb.name = "blink" ->
            [S |-> S, returns |-> IF S.fibers[cb.fiber].props.dep = Num(1)
                                  THEN Cleanup(cb) ELSE NoCleanup]

\* fiber.effectCallbacks.forEach(...), part_001:158-168, from entry i on.
RECURSIVE RunEffects(_, _, _)
RunEffects(S, f, i) ==
    IF i > Len(S.fibers[f].effectCallbacks) THEN S
    ELSE LET effect == S.fibers[f].effectCallbacks[i]
             hook == S.fibers[f].hooks[effect.hook]
             S1 == IF HasCleanup(hook)
                   THEN Called(S, "cleanup", hook.cleanup, f, effect.hook) ELSE S
         IN CHOOSE r \in
              {RunEffects(S3, f, i + 1)
               : S3 \in {IF c.returns # NoCleanup
                         THEN [c.S EXCEPT !.fibers[f].hooks[effect.hook].cleanup = c.returns]
                         ELSE c.S
                         : c \in {CallbackBody(S2, effect.callback)
                                  : S2 \in {Called(S1, "effect", effect.callback, f,
                                                   effect.hook)}}}} : TRUE

\* executeEffects that runs the effects of a fiber before those of its children
\* and siblings.
RECURSIVE executeEffects_parentFirst(_, _)
executeEffects_parentFirst(S, f) ==
    IF f = Null THEN S
    ELSE CHOOSE r \in
           {executeEffects_parentFirst(S3, S3.fibers[f].sibling)
            : S3 \in {executeEffects_parentFirst(S2, S2.fibers[f].child)
                      : S2 \in {[S1 EXCEPT !.fibers[f].effectCallbacks = <<>>]
                                : S1 \in {RunEffects(S, f, 1)}}}} : TRUE

\* executeEffects, part_001:148-172
RECURSIVE executeEffects(_, _)
executeEffects(S, f) ==
    IF f = Null THEN S
    ELSE CHOOSE r \in
           {[S3 EXCEPT !.fibers[f].effectCallbacks = <<>>]
            : S3 \in {RunEffects(S2, f, 1)
                      : S2 \in {executeEffects(S1, S1.fibers[f].sibling)
                                : S1 \in {executeEffects(S, S.fibers[f].child)}}}} : TRUE

\* ------------------------------------------------------- updater and render
\* render without the statement of part_001:531 (deletions = []).
render_keepsDeletions(S, element, container) ==
    LET root == Len(S.fibers) + 1
    IN [S EXCEPT !.fibers = Append(@, Fiber("ROOT", [children |-> <<element>>], container,
                                            Null, S.currentRoot, "")),
                 !.wipRoot = root,
                 !.nextUnitOfWork = root]

\* render, part_001:512-534; "ROOT" stands for container.tagName.
render(S, element, container) ==
    LET root == Len(S.fibers) + 1
    IN [S EXCEPT !.fibers = Append(@, Fiber("ROOT", [children |-> <<element>>], container,
                                            Null, S.currentRoot, "")),
                 !.wipRoot = root,
                 !.deletions = <<>>,
                 !.nextUnitOfWork = root]

\* ---------------------------------------------------------------- work loop
\* The while loop of workLoop, part_001:259-263.  budget counts the probes that
\* are left before deadline.timeRemaining() reports less than 1; a budget of 0
\* is a deadline that never does.  The result carries the number of units done.
RECURSIVE workUnits(_, _, _)
workUnits(S, budget, done) ==
    IF S.thrown \/ S.nextUnitOfWork = Null \/ (done > 0 /\ budget = done)
    THEN [S |-> S, units |-> done]
    ELSE CHOOSE r \in {workUnits(T, budget, done + 1)
                       : T \in {performUnitOfWork(S, S.nextUnitOfWork)}} : TRUE

\* workLoop with the commit condition `if (wipRoot)`: it commits a pass whose
\* walk is not over.
workLoop_commitsUnfinished(S, budget) ==
    CHOOSE r \in
      {LET commits == ~w.S.thrown /\ w.S.wipRoot # Null
       IN CHOOSE r1 \in
            {[S |-> S1, units |-> w.units, commits |-> commits, renderLog |-> w.S.log,
              requests |-> IF S1.thrown THEN 0 ELSE 1]
             : S1 \in {IF commits THEN commitRoot([w.S EXCEPT !.log = <<>>]) ELSE w.S}} : TRUE
       : w \in {workUnits(S, budget, 0)}} : TRUE

\* workLoop that requests no further idle callback when it yields with work
\* left.
workLoop_yieldsForGood(S, budget) ==
    CHOOSE r \in
      {LET commits == ~w.S.thrown /\ w.S.nextUnitOfWork = Null /\ w.S.wipRoot # Null
       IN CHOOSE r1 \in
            {[S |-> S2, units |-> w.units, commits |-> commits, renderLog |-> w.S.log,
              requests |-> IF S2.thrown \/ S2.nextUnitOfWork # Null THEN 0 ELSE 1]
             : S2 \in {IF commits /\ ~S1.thrown THEN executeEffects(S1, S1.currentRoot)
                       ELSE S1
                       : S1 \in {IF commits THEN commitRoot([w.S EXCEPT !.log = <<>>])
                                 ELSE w.S}}} : TRUE
       : w \in {workUnits(S, budget, 0)}} : TRUE

\* workLoop that requests a further idle callback only when it did something:
\* a slice that finds no work requests none.
workLoop_restsWhenIdle(S, budget) ==
    CHOOSE r \in
      {LET commits == ~w.S.thrown /\ w.S.nextUnitOfWork = Null /\ w.S.wipRoot # Null
       IN CHOOSE r1 \in
            {[S |-> S2, units |-> w.units, commits |-> commits, renderLog |-> w.S.log,
              requests |-> IF S2.thrown \/ (w.units = 0 /\ ~commits) THEN 0 ELSE 1]
             : S2 \in {IF commits /\ ~S1.thrown THEN executeEffects(S1, S1.currentRoot)
                       ELSE S1
                       : S1 \in {IF commits THEN commitRoot([w.S EXCEPT !.log = <<>>])
                                 ELSE w.S}}} : TRUE
       : w \in {workUnits(S, budget, 0)}} : TRUE

\* workLoop that catches what a unit of work throws and goes on as if the walk
\* were over.
workLoop_commitsAfterThrow(S, budget) ==
    CHOOSE r \in
      {LET commits == w.S.nextUnitOfWork = Null /\ w.S.wipRoot # Null
       IN CHOOSE r1 \in
            {[S |-> S2, units |-> w.units, commits |-> commits, renderLog |-> w.S.log,
              requests |-> IF S2.thrown THEN 0 ELSE 1]
             : S2 \in {IF commits /\ ~S1.thrown THEN executeEffects(S1, S1.currentRoot)
                       ELSE S1
                       : S1 \in {IF commits THEN commitRoot([w.S EXCEPT !.log = <<>>])
                                 ELSE w.S}}} : TRUE
       : w \in {CHOOSE c \in {IF u.S.thrown
                               THEN [u EXCEPT !.S.thrown = FALSE, !.S.nextUnitOfWork = Null]
                               ELSE u
                               : u \in {workUnits(S, budget, 0)}} : TRUE}} : TRUE

\* workLoop that returns when the probe reports less than 1, without the
\* commit test: a walk that ends as the time runs out is committed by the
\* next slice.
workLoop_yieldsBeforeCommit(S, budget) ==
    CHOOSE r \in
      {LET commits == /\ ~w.S.thrown /\ w.S.nextUnitOfWork = Null /\ w.S.wipRoot # Null
                      /\ ~(budget > 0 /\ budget = w.units)
       IN CHOOSE r1 \in
            {[S |-> S2, units |-> w.units, commits |-> commits, renderLog |-> w.S.log,
              requests |-> IF S2.thrown THEN 0 ELSE 1]
             : S2 \in {IF commits /\ ~S1.thrown THEN executeEffects(S1, S1.currentRoot)
                       ELSE S1
                       : S1 \in {IF commits THEN commitRoot([w.S EXCEPT !.log = <<>>])
                                 ELSE w.S}}} : TRUE
       : w \in {workUnits(S, budget, 0)}} : TRUE

\* workLoop, part_001:256-274, with the number of idle callbacks it requests:
\* the one of line 273, which an exception propagating out of the function
\* skips.
workLoop(S, budget) ==
    CHOOSE r \in
      {LET commits == ~w.S.thrown /\ w.S.nextUnitOfWork = Null /\ w.S.wipRoot # Null
       IN CHOOSE r1 \in
            {[S |-> S2, units |-> w.units, commits |-> commits, renderLog |-> w.S.log,
              requests |-> IF S2.thrown THEN 0 ELSE 1]
             : S2 \in {IF commits /\ ~S1.thrown THEN executeEffects(S1, S1.currentRoot)
                       ELSE S1
                       : S1 \in {IF commits THEN commitRoot([w.S EXCEPT !.log = <<>>])
                                 ELSE w.S}}} : TRUE
       : w \in {workUnits(S, budget, 0)}} : TRUE

\* ------------------------------------------------------------ the application
\* The descriptions the application renders into the container.
\*   Descs[1], Descs[2]: `element` and `updatedElement` of the reconciliation demo
\*   Descs[3]: <App />
\*   Descs[4]: <Panel />, the application with an effect
\*   Descs[5]: <Eager />, the application that updates its state as it renders
\*   Descs[6], Descs[7]: two components with an effect that returns a cleanup
\*            (bootstrap.tsx:18-29) under a div, and the first of them alone
\*   Descs[8]: a heading and a component that throws, under a div
\*   Descs[9], Descs[10]: the component whose effect returns a cleanup, and
\*            the same component with the prop for which it returns none
\*   Descs[11], Descs[12]: a heading followed by a component, under a div,
\*            and the same with a heading of another type
Descs ==
    << createElement("div", [style |-> Str("salmon")],
         << createElement("h1", NoProps, <<Str("Hello World")>>),
            createElement("h2", [style |-> Str("right")], <<>>),
            createElement("h3", [style |-> Str("right")], <<>>) >>),
       createElement("div", [style |-> Str("lightblue")],
         << createElement("p", NoProps, <<Str("Hello Reconciliation")>>),
            createElement("h2", [style |-> Str("right")], <<>>) >>),
       createElement("App", NoProps, <<>>),
       createElement("Panel", NoProps, <<>>),
       createElement("Eager", NoProps, <<>>),
       createElement("div", NoProps,
         << createElement("Watcher", [dep |-> Num(1)], <<>>),
            createElement("Watcher", [dep |-> Num(1)], <<>>) >>),
       createElement("div", NoProps,
         << createElement("Watcher", [dep |-> Num(1)], <<>>) >>),
       createElement("div", [style |-> Str("salmon")],
         << createElement("h1", NoProps, <<Str("Hello World")>>),
            createElement("Faulty", NoProps, <<>>) >>),
       createElement("Blinker", [dep |-> Num(1)], <<>>),
       createElement("Blinker", [dep |-> Num(0)], <<>>),
       createElement("div", NoProps,
         << createElement("h1", NoProps, <<>>),
            createElement("Watcher", [dep |-> Num(1)], <<>>) >>),
       createElement("div", NoProps,
         << createElement("h2", NoProps, <<>>),
            createElement("Watcher", [dep |-> Num(1)], <<>>) >>) >>

\* The host nodes below node n in the host tree, n included.
RECURSIVE HostSubtree(_, _)
HostSubtree(h, n) ==
    {n} \cup UNION {HostSubtree(h, h[n].children[i]) : i \in DOMAIN h[n].children}

\* The attached host tree: every node under the container, as it is.
Attached(h) == [n \in HostSubtree(h, Container) |-> h[n]]

\* -------------------------------------------------------------------- actions
Init ==
    /\ fibers = <<>>
    /\ host = <<HostNode("ROOT", NoProps)>>
    /\ nextUnitOfWork = Null
    /\ wipRoot = Null
    /\ currentRoot = Null
    /\ deletions = <<>>
    /\ wipFiber = Null
    /\ hookIndex = 0
    /\ commitCounter = 0
    /\ pendingSlices = 1          \* requestIdleCallback(workLoop), part_001:277
    /\ passes = 0
    /\ abandoned = 0
    /\ passStart = [origin |-> "none", desc |-> 0, prog |-> <<>>]
    /\ commitLog = <<>>
    /\ hostAtCommit = <<HostNode("ROOT", NoProps)>>
    /\ renderOps = <<>>
    /\ commitOps = <<>>
    /\ effectLog = <<>>
    /\ cleanupLog = <<>>
    /\ lastEvent = [kind |-> "init"]

\* The program variables take the values the operation left in S.
Becomes(S) ==
    /\ fibers' = S.fibers
    /\ host' = S.host
    /\ nextUnitOfWork' = S.nextUnitOfWork
    /\ wipRoot' = S.wipRoot
    /\ currentRoot' = S.currentRoot
    /\ deletions' = S.deletions
    /\ wipFiber' = S.wipFiber
    /\ hookIndex' = S.hookIndex
    /\ commitCounter' = S.commitCounter

\* A pass may be started: the bounds of the model allow one more, and one more
\* abandoned pass when a pass is in progress.
MayStartPass == passes < MaxPasses /\ (wipRoot # Null => abandoned < MaxAbandoned)
Supersedes == IF wipRoot # Null THEN 1 ELSE 0

\* The application calls ReactMini.render(Descs[d], container).
RenderStep(d) ==
    /\ \E S \in {render(Prog, Descs[d], Container)} :
          /\ Becomes(S)
          /\ passStart' = [origin |-> "render", desc |-> d, prog |-> S]
          /\ renderOps' = renderOps \o S.log
    /\ passes' = passes + 1
    /\ abandoned' = abandoned + Supersedes
    /\ lastEvent' = [kind |-> "render", desc |-> d]
    /\ UNCHANGED <<pendingSlices, commitLog, hostAtCommit, commitOps, effectLog, cleanupLog>>

Render(d) == MayStartPass /\ RenderStep(d)

\* The user clicks attached host node n: the listener l registered on it runs,
\* and every listener of this application is () => setState(action).  A call
\* that bails out is always possible, one that starts a pass when mayStart.
DispatchStep(n, l, mayStart) ==
    \E S \in {setState(Prog, l[2].fiber, l[2].hook, l[2].action)} :
    \E bails \in {S = Prog} :
       /\ bails \/ mayStart
       /\ Becomes(S)
       /\ passes' = IF bails THEN passes ELSE passes + 1
       /\ abandoned' = IF bails THEN abandoned ELSE abandoned + Supersedes
       /\ passStart' = IF bails THEN passStart
                       ELSE [origin |-> "update", desc |-> 0, prog |-> S]
       /\ renderOps' = renderOps \o S.log
       /\ lastEvent' = [kind |-> IF bails THEN "bail" ELSE "update",
                        fiber |-> l[2].fiber, hook |-> l[2].hook, action |-> l[2].action]
       /\ UNCHANGED <<pendingSlices, commitLog, hostAtCommit, commitOps, effectLog, cleanupLog>>

Dispatch(n, l) == DispatchStep(n, l, MayStartPass)

\* The browser is idle and runs a requested callback: one call of workLoop with
\* a deadline of the given budget, and its requestIdleCallback (part_001:273),
\* which an exception propagating out of the slice skips.  The updaters that
\* components and effect callbacks call in the slice start passes of their own.
WorkLoop(budget) ==
    /\ pendingSlices > 0
    /\ \E r \in {workLoop(Prog, budget)} :
          /\ Becomes(r.S)
          /\ pendingSlices' = pendingSlices - 1 + r.requests
          /\ renderOps' = IF r.commits THEN <<>> ELSE renderOps \o r.renderLog
          /\ commitOps' = IF r.commits THEN r.S.log ELSE commitOps
          /\ hostAtCommit' = IF r.commits THEN r.S.host ELSE hostAtCommit
          /\ commitLog' = IF r.commits
                          THEN Append(commitLog, [pass |-> passes,
                                                  origin |-> passStart.origin,
                                                  desc |-> passStart.desc,
                                                  renderOps |-> renderOps \o r.renderLog,
                                                  host |-> r.S.host])
                          ELSE commitLog
          /\ effectLog' = IF r.commits THEN r.S.calls ELSE effectLog
          /\ cleanupLog' = cleanupLog \o SelectSeq(r.S.calls, IsCleanupCall)
          /\ passes' = passes + Len(r.S.started)
          /\ abandoned' = abandoned + Count(r.S.started, TRUE)
          /\ passStart' = IF r.S.started = <<>> THEN passStart
                           ELSE [origin |-> "slice", desc |-> 0,
                                 prog |-> [r.S EXCEPT !.log = <<>>, !.calls = <<>>,
                                                      !.started = <<>>]]
          /\ lastEvent' = [kind |-> "slice", units |-> r.units, commits |-> r.commits]

Next ==
    \/ \E d \in {1, 2, 3} : Render(d)
    \/ \E n \in HostSubtree(host, Container) : \E l \in host[n].listeners : Dispatch(n, l)
    \/ \E budget \in 0..MaxBudget : WorkLoop(budget)

Spec == Init /\ [][Next]_vars

\* The browser keeps granting idle periods: a requested callback that would
\* change the state is run eventually, whatever its deadline.
LiveSpec == Spec /\ WF_vars(\E budget \in 0..MaxBudget : WorkLoop(budget))

\* The counter scenario: the application mounts <App /> once and from then on
\* the user clicks its bindings, at any moment between two slices.
Mount == passes = 0 /\ RenderStep(3)
Click(n, l) == DispatchStep(n, l, passes <= MaxUpdates)

CounterNext ==
    \/ Mount
    \/ \E n \in HostSubtree(host, Container) : \E l \in host[n].listeners : Click(n, l)
    \/ \E budget \in 0..MaxBudget : WorkLoop(budget)

CounterSpec == Init /\ [][CounterNext]_vars

\* The effect scenario: the application renders <Panel />, again and again,
\* and the user clicks its binding.
RenderPanel == passes <= MaxUpdates /\ RenderStep(4)

EffectNext ==
    \/ RenderPanel
    \/ \E n \in HostSubtree(host, Container) : \E l \in host[n].listeners : Click(n, l)
    \/ \E budget \in 0..MaxBudget : WorkLoop(budget)

EffectSpec == Init /\ [][EffectNext]_vars

\* The scenario of the component that updates its state as it renders: the
\* application renders a host description or <Eager />.
RenderEager(d) == passes < MaxPasses /\ RenderStep(d)

EagerNext ==
    \/ \E d \in {2, 5} : RenderEager(d)
    \/ \E budget \in 0..MaxBudget : WorkLoop(budget)

EagerSpec == Init /\ [][EagerNext]_vars

\* The unmount scenario: the application renders the two components with a
\* cleanup, one of them, or <App />, in any order, and when the passes the
\* bounds allow have committed it renders the one component once more.
RenderOnceMore == passes = MaxPasses /\ wipRoot = Null /\ RenderStep(7)

UnmountNext ==
    \/ \E d \in {3, 6, 7} : Render(d)
    \/ RenderOnceMore
    \/ \E budget \in 0..MaxBudget : WorkLoop(budget)

UnmountSpec == Init /\ [][UnmountNext]_vars

\* The fault scenario: the application renders `updatedElement` or the
\* description with the component that throws, in any order.
FaultNext ==
    \/ \E d \in {2, 8} : Render(d)
    \/ \E budget \in 0..MaxBudget : WorkLoop(budget)

FaultSpec == Init /\ [][FaultNext]_vars

\* ------------------------------------------------------------ observations
\* The fibers reachable from f through child and sibling links, f included.
RECURSIVE TreeOf(_, _)
TreeOf(fs, f) ==
    IF f = Null THEN {} ELSE {f} \cup TreeOf(fs, fs[f].child) \cup TreeOf(fs, fs[f].sibling)

\* The fiber tree rooted at root: the root and everything below it.
FiberTree(fs, root) == IF root = Null THEN {} ELSE {root} \cup TreeOf(fs, fs[root].child)

\* The child chain that starts at fiber c, as a sequence.
RECURSIVE ChildChain(_, _)
ChildChain(fs, c) == IF c = Null THEN <<>> ELSE <<c>> \o ChildChain(fs, fs[c].sibling)

\* The root of the pass in progress, or of the committed tree when none is.
PassRoot == IF wipRoot # Null THEN wipRoot ELSE currentRoot

\* The passes commitRoot has run for.
CommittedPasses == {commitLog[i].pass : i \in DOMAIN commitLog}

\* What one uninterrupted slice makes of the state in which the current pass began.
Uninterrupted == workLoop(passStart.prog, 0).S

\* --------------------------------------------------------------------- C1
\* C1: no commit happens while nextUnitOfWork is non-null.  A slice that the
\* probe stops while fibers remain returns with nextUnitOfWork non-null and
\* wipRoot still set, and commitRoot has not run for that pass.
C1_NoCommitWhileWorkRemains ==
    nextUnitOfWork # Null =>
        /\ wipRoot # Null
        /\ passes \notin CommittedPasses
        /\ commitCounter = passStart.prog.commitCounter
        /\ lastEvent.kind = "slice" => ~lastEvent.commits

\* A slice did a unit of work, the probe stopped it, and fibers remain.
C1_Witness ==
    /\ lastEvent.kind = "slice"
    /\ lastEvent.units >= 1
    /\ nextUnitOfWork # Null

\* --------------------------------------------------------------------- C2
\* C2: commitRoot runs exactly once for a pass that is not superseded, however
\* the walk is split into slices: none while the pass is in progress, one when
\* it is over and none after that until a new pass starts; and what the split
\* walk built and committed is what one uninterrupted slice builds and commits
\* from the state in which the pass began.
C2_OneCommitPerPass ==
    passes > 0 =>
        /\ commitCounter = Len(commitLog)
        /\ \A i, j \in DOMAIN commitLog : i < j => commitLog[i].pass < commitLog[j].pass
        /\ wipRoot # Null => commitCounter = passStart.prog.commitCounter
        /\ wipRoot = Null =>
              /\ commitCounter = passStart.prog.commitCounter + 1
              /\ commitLog[Len(commitLog)].pass = passes
              /\ \A whole \in {Uninterrupted} :
                    /\ fibers = whole.fibers
                    /\ host = whole.host
                    /\ currentRoot = whole.currentRoot
                    /\ deletions = whole.deletions

\* A pass that was walked in several slices has just been committed by the
\* slice that did its last unit.
C2_Witness ==
    /\ lastEvent.kind = "slice"
    /\ lastEvent.commits
    /\ lastEvent.units = 1
    /\ Cardinality(FiberTree(fibers, currentRoot)) > 2

\* --------------------------------------------------------------------- C3
\* A host node as createDom made it: nothing written, nothing attached.
Pristine(node) ==
    /\ node.listeners = {}
    /\ node.children = <<>>
    /\ node.parent = Null
    /\ DOMAIN node.attrs \subseteq {"nodeValue"}
    /\ "nodeValue" \in DOMAIN node.attrs => node.attrs.nodeValue = Str("")

\* C3: the host is mutated only inside commitRoot.  Outside it no insertBefore,
\* removeChild, property write or listener change is applied to any host node:
\* every node that existed at the last commit is as that commit left it, every
\* node created since is untouched, and the attached tree is that commit's.
C3_HostMutatedOnlyInCommit ==
    /\ renderOps = <<>>
    /\ \A i \in DOMAIN commitLog : commitLog[i].renderOps = <<>>
    /\ Len(host) >= Len(hostAtCommit)
    /\ SubSeq(host, 1, Len(hostAtCommit)) = hostAtCommit
    /\ \A n \in (Len(hostAtCommit) + 1)..Len(host) : Pristine(host[n])
    /\ Attached(host) = Attached(hostAtCommit)

\* A pass over a committed tree has been interrupted after it created host nodes.
C3_Witness ==
    /\ commitCounter >= 1
    /\ wipRoot # Null
    /\ lastEvent.kind = "slice"
    /\ lastEvent.units >= 1
    /\ Len(host) > Len(hostAtCommit)
    /\ Len(hostAtCommit) > 1

\* --------------------------------------------------------------------- C4
\* The last step was a slice that ran commitRoot.
JustCommitted == lastEvent.kind = "slice" /\ lastEvent.commits

\* The host node a fiber stands for: its own, or that of the nearest descendant
\* that owns one (the search of part_001:200-205 and part_002:139-147).
RECURSIVE HostNodeOf(_, _)
HostNodeOf(fs, f) ==
    IF f = Null THEN Null
    ELSE IF fs[f].dom # Null THEN fs[f].dom
    ELSE HostNodeOf(fs, fs[f].child)

\* The positions of the operations in ops that are of kind op on target node.
OpsOn(ops, op, node) == {i \in DOMAIN ops : ops[i].op = op /\ ops[i].target = node}

\* The reconciliation half of C4, for the unit of work that is next: where the
\* type at a child position differs from the old fiber's, the old fiber is
\* tagged DELETION and is on deletions, and the fiber built for the position is
\* a PLACEMENT with no dom and no alternate.
C4_TypeChangeReconciled ==
    nextUnitOfWork # Null =>
      \A S \in {performUnitOfWork(Prog, nextUnitOfWork)} :
        LET alt == fibers[nextUnitOfWork].alternate
            olds == IF alt = Null THEN <<>> ELSE ChildChain(fibers, fibers[alt].child)
            news == ChildChain(S.fibers, S.fibers[nextUnitOfWork].child)
        IN \A i \in DOMAIN olds \cap DOMAIN news :
              S.fibers[news[i]].type # fibers[olds[i]].type =>
                 /\ S.fibers[olds[i]].effectTag = "DELETION"
                 /\ olds[i] \in Range(S.deletions)
                 /\ S.fibers[news[i]].effectTag = "PLACEMENT"
                 /\ S.fibers[news[i]].dom = Null
                 /\ S.fibers[news[i]].alternate = Null

\* The commit half of C4, for the pass just committed: among the host operations
\* of the commit, the removal of the old fiber's host node comes before the
\* insertion of the new fiber's.
C4_RemovedBeforeInserted ==
    JustCommitted =>
      \A p \in FiberTree(fibers, currentRoot) :
        LET alt == fibers[p].alternate
            olds == IF alt = Null THEN <<>> ELSE ChildChain(fibers, fibers[alt].child)
            news == ChildChain(fibers, fibers[p].child)
        IN \A i \in DOMAIN olds \cap DOMAIN news :
              fibers[news[i]].type # fibers[olds[i]].type =>
                 \E r \in OpsOn(commitOps, "removeChild", HostNodeOf(fibers, olds[i])) :
                 \E a \in OpsOn(commitOps, "insertBefore", HostNodeOf(fibers, news[i])) :
                    r < a

\* C4: a type change at a child position makes reconcileChildren tag the old
\* fiber DELETION, push it on deletions and build a PLACEMENT fiber with dom
\* null and alternate null; and at commit the old fiber's host node is removed
\* from its host parent before the new fiber's host node is inserted.
C4_TypeChangeReplaces == C4_TypeChangeReconciled /\ C4_RemovedBeforeInserted

\* --------------------------------------------------------------------- C5
\* C5: after commitRoot completes, the host node of every fiber in the deletions
\* list, or of its nearest descendant that owns one when it owns none, is no
\* longer a child of its host parent.
C5_DeletedHostNodesRemoved ==
    JustCommitted =>
      \A i \in DOMAIN deletions :
        LET node == HostNodeOf(fibers, deletions[i])
            domParent == fibers[DomParentFiber(fibers, fibers[deletions[i]].parent)].dom
        IN node # Null => node \notin Range(host[domParent].children)

\* --------------------------------------------------------------------- C6
\* The description list the unit of work of fiber f reconciles, read from the
\* state S the unit left: the children of a host fiber's props, or the one
\* description the component function returned for the values of its hooks.
ElementsOf(S, f) ==
    IF IsFunction(S.fibers[f].type)
    THEN <<ComponentBody(S.fibers[f].type, S.fibers[f].props, f,
                         [k \in DOMAIN S.fibers[f].hooks |-> S.fibers[f].hooks[k].state])>>
    ELSE S.fibers[f].props.children

\* C6: for the unit of work that is next, when its fiber has an alternate, at
\* every index where the old child chain and the new description list both have
\* an entry of the same type the unit builds exactly one fiber, tagged UPDATE,
\* with the old fiber's dom, the new description's props and the old fiber as
\* alternate; it builds no PLACEMENT fiber there, pushes the old fiber on
\* deletions no more often than it was and leaves the old fiber's tag alone.
C6_SameTypeUpdatesInPlace ==
    (nextUnitOfWork # Null /\ fibers[nextUnitOfWork].alternate # Null) =>
      \A S \in {performUnitOfWork(Prog, nextUnitOfWork)} :
        LET olds == ChildChain(fibers, fibers[fibers[nextUnitOfWork].alternate].child)
            news == ChildChain(S.fibers, S.fibers[nextUnitOfWork].child)
            elements == ElementsOf(S, nextUnitOfWork)
        IN /\ Len(news) = Len(elements)
           /\ \A i \in DOMAIN olds \cap DOMAIN elements :
                 elements[i].type = fibers[olds[i]].type =>
                    /\ S.fibers[news[i]].effectTag = "UPDATE"
                    /\ S.fibers[news[i]].type = elements[i].type
                    /\ S.fibers[news[i]].dom = fibers[olds[i]].dom
                    /\ S.fibers[news[i]].props = elements[i].props
                    /\ S.fibers[news[i]].alternate = olds[i]
                    /\ S.fibers[news[i]].parent = nextUnitOfWork
                    /\ Count(S.deletions, olds[i]) = Count(deletions, olds[i])
                    /\ S.fibers[olds[i]].effectTag = fibers[olds[i]].effectTag

\* A slice has reconciled the children of a fiber whose old chain has a child of
\* the same type at one position and of another type at the next-door position.
C6_Witness ==
    /\ lastEvent.kind = "slice"
    /\ lastEvent.units >= 1
    /\ wipRoot # Null
    /\ \E n, m \in FiberTree(fibers, wipRoot) :
          /\ fibers[n].parent = fibers[m].parent
          /\ fibers[n].effectTag = "UPDATE"
          /\ fibers[n].alternate # Null
          /\ fibers[n].dom = fibers[fibers[n].alternate].dom
          /\ fibers[n].dom # Null
          /\ fibers[m].effectTag = "PLACEMENT"

\* --------------------------------------------------------------------- C7
\* Description d was rendered into the empty container, that pass committed,
\* and the pass in progress or just committed is a second render of d.
RerenderOf(d) ==
    /\ passes = 2
    /\ commitLog # <<>>
    /\ commitLog[1].pass = 1
    /\ commitLog[1].origin = "render"
    /\ commitLog[1].desc = d
    /\ passStart.origin = "render"
    /\ passStart.desc = d

\* The fibers of the pass below its root.
BelowRoot == FiberTree(fibers, PassRoot) \ {PassRoot}

OwnerOf(dom) == {n \in BelowRoot : fibers[n].dom = dom}

\* The host nodes h without their listeners and event attributes.
WithoutEvents(h) ==
    [n \in DOMAIN h |->
        [h[n] EXCEPT !.listeners = {},
                     !.attrs = [a \in {k \in DOMAIN h[n].attrs : ~isEvent(k)} |-> h[n].attrs[a]]]]

C7_HostOnlyWitness ==
    /\ JustCommitted
    /\ RerenderOf(1)
    /\ commitOps = <<>>

\* --------------------------------------------------------------------- C8
\* The hook objects there are, as <<fiber, index>>: each has its updater.
Cells == UNION {{<<f, k>> : k \in DOMAIN fibers[f].hooks} : f \in DOMAIN fibers}

\* The actions an updater is called with: literals and functions.
Actions == {Lit(v) : v \in 0..3} \cup {Fn("inc"), Fn("keep")}

\* C8: calling the updater of any hook object with an action, literal or
\* function, whose result is the same value as the state of the hook object is
\* a no-op: the queue of the hook object, wipRoot, nextUnitOfWork, deletions,
\* currentRoot, every fiber and the host tree are as they were and nothing is
\* thrown.
C8_SameValueIsNoOp ==
    \A c \in Cells : \A a \in Actions :
       ApplyAction(fibers[c[1]].hooks[c[2]].state, a) = fibers[c[1]].hooks[c[2]].state =>
          setState(Prog, c[1], c[2], a) = Prog

\* A click has called an updater with the value its hook object already had,
\* while hook objects exist for which a function and a literal give the same
\* value.
C8_Witness ==
    /\ lastEvent.kind = "bail"
    /\ commitCounter = 2
    /\ \E c \in Cells : fibers[c[1]].hooks[c[2]].state = ResetValue

\* --------------------------------------------------------------------- C9
\* The updates of queue q applied to value v in the order they were queued: the
\* update queued last is applied to what the ones before it made of v.
RECURSIVE FoldInOrder(_, _)
FoldInOrder(v, q) ==
    IF q = <<>> THEN v
    ELSE LET before == FoldInOrder(v, SubSeq(q, 1, Len(q) - 1))
             last == q[Len(q)]
         IN IF "fn" \in DOMAIN last THEN CallFn(last.fn, before) ELSE last.lit

\* The value the Counter of fiber f displays in the description built from it:
\* the text under the h1 of the div that is the child of f.
Displayed(fs, f) == fs[fs[f].child].props.children[1].props.children[1].props.nodeValue

\* C9: for the unit of work that is next, when it is a component fiber, the
\* value its k-th useState call returns (the state of the hook object it
\* pushes, which is what the component displays) is, when the fiber has an
\* alternate, the state of the alternate's k-th hook object with every update
\* of that object's queue applied in the order they were queued, and is the
\* initial argument when the fiber has no alternate; and the queue of the new
\* hook object is empty.
C9_StateIsFoldOfQueue ==
    (nextUnitOfWork # Null /\ IsFunction(fibers[nextUnitOfWork].type)) =>
      \A S \in {performUnitOfWork(Prog, nextUnitOfWork)} :
        LET alt == fibers[nextUnitOfWork].alternate
            initials == ComponentHooks(fibers[nextUnitOfWork].type)
            hooks == S.fibers[nextUnitOfWork].hooks
        IN /\ Len(hooks) = Len(initials)
           /\ \A k \in DOMAIN hooks :
                /\ hooks[k].queue = <<>>
                /\ hooks[k].state =
                      IF alt # Null
                      THEN FoldInOrder(fibers[alt].hooks[k].state, fibers[alt].hooks[k].queue)
                      ELSE initials[k]
           /\ hooks # <<>> => Displayed(S.fibers, nextUnitOfWork) = Num(hooks[1].state)

\* A slice has rendered the Counter over an alternate whose queue held a literal
\* update followed by a function update, and the new state is the function
\* applied to the literal.
C9_Witness ==
    /\ lastEvent.kind = "slice"
    /\ lastEvent.units >= 1
    /\ wipRoot # Null
    /\ \E n \in FiberTree(fibers, wipRoot) :
          /\ fibers[n].type = "Counter"
          /\ fibers[n].hooks # <<>>
          /\ fibers[n].alternate # Null
          /\ fibers[fibers[n].alternate].hooks[1].state = 0
          /\ fibers[fibers[n].alternate].hooks[1].queue = <<Lit(ResetValue), Fn("inc")>>
          /\ fibers[n].hooks[1].state = ResetValue + 1
          /\ Displayed(fibers, n) = Num(ResetValue + 1)

EagerDisplayed(fs, f) == fs[fs[f].child].props.children[1].props.nodeValue

\* The first half of C11, for the unit of work that is next when it is a
\* component that calls its updater as it runs: the value its useState call
\* returned is the one it displays, the update it queued not applied.
C11_ValueFixedWithinPass ==
    (nextUnitOfWork # Null /\ ComponentUpdates(fibers[nextUnitOfWork].type) # <<>>) =>
      \A S \in {performUnitOfWork(Prog, nextUnitOfWork)} :
        ~S.thrown =>
          LET alt == fibers[nextUnitOfWork].alternate
              value == IF alt # Null
                       THEN FoldInOrder(fibers[alt].hooks[1].state, fibers[alt].hooks[1].queue)
                       ELSE ComponentHooks(fibers[nextUnitOfWork].type)[1]
          IN /\ S.fibers[nextUnitOfWork].hooks[1].state = value
             /\ EagerDisplayed(S.fibers, nextUnitOfWork) = Num(value)
             /\ S.fibers[nextUnitOfWork].hooks[1].queue = <<Lit(ResetValue)>>

\* The second half of C11: an update queued on a hook object shows up in the
\* value a later pass computes.  When every pass that was started has been
\* committed or superseded, each hook object with a queued update is the
\* alternate's of a fiber whose hook object holds the value with the update
\* applied.
C11_UpdateShowsUpLater ==
    (wipRoot = Null /\ pendingSlices > 0) =>
      \A c \in Cells :
        ("queue" \in DOMAIN fibers[c[1]].hooks[c[2]] /\ fibers[c[1]].hooks[c[2]].queue # <<>>) =>
          \E n \in DOMAIN fibers :
            /\ fibers[n].alternate = c[1]
            /\ c[2] \in DOMAIN fibers[n].hooks
            /\ fibers[n].hooks[c[2]].state =
                  FoldInOrder(fibers[c[1]].hooks[c[2]].state, fibers[c[1]].hooks[c[2]].queue)

\* C11: within one pass the value a state hook hands to its component is fixed:
\* an update queued while the component function of that pass runs does not
\* change the value already returned in that pass, and it shows up in the value
\* a later pass computes.
C11_UpdateWhileRenderingShowsNextPass == C11_ValueFixedWithinPass /\ C11_UpdateShowsUpLater

\* ------------------------------------------------------------------- C12
\* The effect hooks of the committed tree that had a hook in the previous
\* committed tree: <<fiber, hook index>>, the fiber having an alternate whose
\* hook of that index was an effect hook with a dependency list.
EffectCells ==
    UNION {{<<f, k>> : k \in {i \in DOMAIN fibers[f].hooks :
                                 /\ "deps" \in DOMAIN fibers[f].hooks[i]
                                 /\ fibers[f].hooks[i].deps.given
                                 /\ fibers[f].alternate # Null
                                 /\ i \in DOMAIN fibers[fibers[f].alternate].hooks
                                 /\ "deps" \in DOMAIN fibers[fibers[f].alternate].hooks[i]
                                 /\ fibers[fibers[f].alternate].hooks[i].deps.given}}
           : f \in FiberTree(fibers, currentRoot)}

\* The calls of the effect callback of hook c in the effect phase of the last
\* commit: their places in the call log.
EffectRuns(c) == {i \in DOMAIN effectLog : /\ effectLog[i].kind = "effect"
                                            /\ effectLog[i].fiber = c[1]
                                            /\ effectLog[i].hook = c[2]}

\* The dependency lists are of equal length and pairwise identical.
SameDeps(prev, next) ==
    Len(prev) = Len(next) /\ \A i \in DOMAIN prev : prev[i] = next[i]

\* C12: for an effect hook present in two consecutive committed passes, with
\* a dependency list in both: when the two lists are of equal length and
\* pairwise identical the callback is not run after the second commit; when
\* some element differs the callback is run (once) after the second commit,
\* and the cleanup the previous run left, if any, is called just before it.
C12_EffectRunsIffDepsChanged ==
    JustCommitted =>
      \A c \in EffectCells :
         LET hook == fibers[c[1]].hooks[c[2]]
             prev == fibers[fibers[c[1]].alternate].hooks[c[2]]
         IN IF SameDeps(prev.deps.list, hook.deps.list)
            THEN EffectRuns(c) = {}
            ELSE /\ Cardinality(EffectRuns(c)) = 1
                 /\ \A i \in EffectRuns(c) :
                       /\ effectLog[i].fn = Callback(c[1], "watch")
                       /\ HasCleanup(prev) =>
                             /\ i > 1
                             /\ effectLog[i - 1].kind = "cleanup"
                             /\ effectLog[i - 1].fn = prev.cleanup
                             /\ effectLog[i - 1].fiber = c[1]
                             /\ effectLog[i - 1].hook = c[2]

\* A commit after which an effect whose second dependency went from 2 to 3 was
\* run again, the cleanup of its previous run having been called before it.
C12_Witness ==
    /\ JustCommitted
    /\ \E c \in EffectCells :
          /\ fibers[fibers[c[1]].alternate].hooks[c[2]].deps.list = <<Num(1), Num(2)>>
          /\ fibers[c[1]].hooks[c[2]].deps.list = <<Num(1), Num(3)>>
          /\ HasCleanup(fibers[fibers[c[1]].alternate].hooks[c[2]])
          /\ EffectRuns(c) # {}

\* A commit after which an effect whose dependencies were [1, 2] in both passes
\* was not run, while another effect of the tree was.
C12_UnchangedWitness ==
    /\ JustCommitted
    /\ effectLog # <<>>
    /\ \E c \in EffectCells :
          /\ fibers[fibers[c[1]].alternate].hooks[c[2]].deps.list = <<Num(1), Num(2)>>
          /\ fibers[c[1]].hooks[c[2]].deps.list = <<Num(1), Num(2)>>
          /\ EffectRuns(c) = {}

\* ------------------------------------------------------------------- C13
\* The text fibers under an h1 in the tree of root.
TextUnderH1(fs, root) ==
    {t \in FiberTree(fs, root) : /\ fs[t].type = "TEXT_ELEMENT"
                                 /\ fs[t].parent # Null
                                 /\ fs[fs[t].parent].type = "h1"}

\* The counter scenario after one click: the application mounted the counter,
\* the pass committed, the increment binding was clicked once (the only update
\* there was), and the pass the click started has committed.
ClickedOnce ==
    /\ passes = 2
    /\ Len(commitLog) = 2
    /\ wipRoot = Null
    /\ \E n \in FiberTree(fibers, currentRoot) :
          /\ fibers[n].type = "Counter"
          /\ fibers[n].alternate # Null
          /\ fibers[fibers[n].alternate].hooks[1].state = 0
          /\ fibers[fibers[n].alternate].hooks[1].queue = <<Fn("inc")>>

\* C13: in the counter scenario after one click, the text node under the h1
\* reads 1; it is the host node that read 0 after the first commit, still the
\* child of the same h1 node; and the host tree has the nodes, and every node
\* the children, it had after the first commit: no node was created, inserted,
\* moved or removed.
C13_ClickUpdatesTextInPlace ==
    ClickedOnce =>
      /\ Cardinality(TextUnderH1(fibers, currentRoot)) = 1
      /\ \A t \in TextUnderH1(fibers, currentRoot) :
            LET dom == fibers[t].dom
                before == commitLog[1].host
            IN /\ dom # Null
               /\ host[dom].tag = "#text"
               /\ host[dom].attrs.nodeValue = Num(1)
               /\ fibers[t].alternate # Null
               /\ fibers[fibers[t].alternate].dom = dom
               /\ dom \in DOMAIN before
               /\ before[dom].attrs.nodeValue = Num(0)
               /\ host[fibers[fibers[t].parent].dom].tag = "h1"
               /\ host[fibers[fibers[t].parent].dom].children = <<dom>>
               /\ fibers[fibers[t].parent].dom \in HostSubtree(host, Container)
      /\ Len(host) = Len(commitLog[1].host)
      /\ \A n \in DOMAIN host : /\ host[n].tag = commitLog[1].host[n].tag
                                 /\ host[n].children = commitLog[1].host[n].children
      /\ \A i \in DOMAIN commitOps : commitOps[i].op \notin {"insertBefore", "removeChild"}

\* The pass of the one click has just committed.
C13_Witness == ClickedOnce /\ JustCommitted /\ commitOps # <<>>

\* ------------------------------------------------------------------- C14
\* The fibers of the committed pass the commit acted on: those below the root
\* that carry an effect tag and a host node which the commit mutated.
ActedOn ==
    {n \in BelowRoot : /\ fibers[n].effectTag # ""
                       /\ fibers[n].dom # Null
                       /\ \E i \in DOMAIN commitOps : commitOps[i].node = fibers[n].dom}

\* The fibers of the committed pass that have a click binding.
Bound == {n \in BelowRoot : "onClick" \in DOMAIN fibers[n].props}

\* The statement of C14 as it was made: the commit of the pass of the one click
\* acts on one fiber, the text fiber under the h1, and its effect is an UPDATE.
C14_OnlyTextNodeUpdated ==
    (ClickedOnce /\ JustCommitted) =>
      /\ ActedOn = TextUnderH1(fibers, currentRoot)
      /\ \A n \in ActedOn : fibers[n].effectTag = "UPDATE"

\* C14 (amended): in the pass of the one click every fiber below the root
\* carries UPDATE; its commit acts on the text fiber under the h1, with one
\* write of nodeValue, and on every fiber that has a click binding, whose
\* callback the component created anew: the old listener is removed, the new
\* one added and written as an attribute; the commit applies no other host
\* operation and acts on no other fiber.
C14_ClickCommitsTextAndBindings ==
    (ClickedOnce /\ JustCommitted) =>
      /\ \A n \in BelowRoot : fibers[n].effectTag = "UPDATE"
      /\ ActedOn = TextUnderH1(fibers, currentRoot) \cup Bound
      /\ \A t \in TextUnderH1(fibers, currentRoot) :
            /\ Cardinality({i \in DOMAIN commitOps : commitOps[i].node = fibers[t].dom}) = 1
            /\ \A i \in DOMAIN commitOps :
                  commitOps[i].node = fibers[t].dom =>
                     commitOps[i].op = "set" /\ commitOps[i].name = "nodeValue"
      /\ \A n \in Bound :
            LET mine == {i \in DOMAIN commitOps : commitOps[i].node = fibers[n].dom}
            IN /\ fibers[n].props.onClick # fibers[fibers[n].alternate].props.onClick
               /\ Cardinality(mine) = 3
               /\ \E r, w, a \in mine :
                     /\ r < w /\ w < a
                     /\ commitOps[r].op = "removeEventListener"
                     /\ commitOps[r].name = EventType("onClick")
                     /\ commitOps[w].op = "set" /\ commitOps[w].name = "onClick"
                     /\ commitOps[a].op = "addEventListener"
                     /\ commitOps[a].name = EventType("onClick")
               /\ host[fibers[n].dom].listeners =
                     {<<EventType("onClick"), fibers[n].props.onClick>>}
      /\ \A i \in DOMAIN commitOps :
            \E n \in TextUnderH1(fibers, currentRoot) \cup Bound :
               commitOps[i].node = fibers[n].dom

\* The pass of the one click has just committed, and its commit acted on the
\* text fiber and on the h1 that carries the binding.
C14_Witness ==
    /\ ClickedOnce
    /\ JustCommitted
    /\ \E t \in TextUnderH1(fibers, currentRoot) :
          /\ t \in ActedOn
          /\ fibers[t].parent \in ActedOn \cap Bound

\* ------------------------------------------------------------------- C15
\* Fiber d is below fiber a: a is on the parent chain of d.
RECURSIVE IsBelow(_, _, _)
IsBelow(fs, d, a) ==
    IF fs[d].parent = Null THEN FALSE
    ELSE fs[d].parent = a \/ IsBelow(fs, fs[d].parent, a)

\* The calls of effect callbacks in the effect phase of the last commit: their
\* places in the call log.
EffectCalls == {i \in DOMAIN effectLog : effectLog[i].kind = "effect"}

\* The cleanup a hook object inherited when its fiber was rendered: the one of
\* the hook object of the same index of the alternate, if there is one.
Inherited(f, k) ==
    IF fibers[f].alternate # Null /\ k \in DOMAIN fibers[fibers[f].alternate].hooks
    THEN fibers[fibers[f].alternate].hooks[k].cleanup
    ELSE NoCleanup

\* C15: after a commit, every call of an effect callback was made when all the
\* host operations of the commit had been applied and currentRoot was the
\* committed root (and not the root in progress); a callback of a fiber below
\* another was called before the callbacks of the other; the cleanup the hook
\* object had inherited, if any, was called just before the callback and not
\* otherwise; what the callback returned, if a function, is the cleanup of the
\* hook object now; and no queued callback is left.
C15_EffectsAfterCommitChildFirst ==
    JustCommitted =>
      /\ \A i \in EffectCalls :
            LET e == effectLog[i]
                hook == fibers[e.fiber].hooks[e.hook]
            IN /\ e.hostOps = Len(commitOps)
               /\ e.currentRoot = currentRoot
               /\ e.wipRoot # currentRoot
               /\ e.fiber \in FiberTree(fibers, currentRoot)
               /\ IF Inherited(e.fiber, e.hook) # NoCleanup
                  THEN /\ i > 1
                       /\ effectLog[i - 1].kind = "cleanup"
                       /\ effectLog[i - 1].fn = Inherited(e.fiber, e.hook)
                       /\ effectLog[i - 1].hostOps = Len(commitOps)
                  ELSE i > 1 => effectLog[i - 1].kind = "effect"
               /\ \A r \in {CallbackBody(Prog, e.fn).returns} :
                     hook.cleanup = IF r # NoCleanup THEN r ELSE Inherited(e.fiber, e.hook)
      /\ \A i, j \in EffectCalls :
            IsBelow(fibers, effectLog[i].fiber, effectLog[j].fiber) => i < j
      /\ \A n \in FiberTree(fibers, currentRoot) : fibers[n].effectCallbacks = <<>>

\* A commit after which the effect of a component below another was run, its
\* previous cleanup first, and then the effect of the component above it.
C15_Witness ==
    /\ JustCommitted
    /\ Len(effectLog) = 3
    /\ effectLog[1].kind = "cleanup"
    /\ effectLog[2].kind = "effect"
    /\ effectLog[3].kind = "effect"
    /\ IsBelow(fibers, effectLog[2].fiber, effectLog[3].fiber)
    /\ commitOps # <<>>

\* ------------------------------------------------------------------- C16
\* The tree effects of the pass whose root is root have been applied to the
\* host tree h: every host node a fiber below the root carries is attached
\* under the container and has the properties the fiber describes.
EffectsApplied(fs, h, root) ==
    \A n \in FiberTree(fs, root) \ {root} :
      fs[n].dom # Null =>
        /\ fs[n].dom \in HostSubtree(h, Container)
        /\ \A key \in DOMAIN fs[n].props :
              isProperty(key) =>
                 key \in DOMAIN h[fs[n].dom].attrs /\ h[fs[n].dom].attrs[key] = fs[n].props[key]

\* A step changes currentRoot only if it is a slice that commits: the new
\* value is the root that was in progress, whose alternate is the root
\* committed before, and the host tree the step leaves has the effects of its
\* tree applied; wipRoot is null afterwards, unless an effect callback of the
\* commit started a pass.
CurrentRootSetByCommit ==
    currentRoot' # currentRoot =>
       /\ lastEvent'.kind = "slice"
       /\ lastEvent'.commits
       /\ wipRoot # Null
       /\ currentRoot' = wipRoot
       /\ passes' = passes => (wipRoot' = Null /\ nextUnitOfWork' = Null)
       /\ commitCounter' = commitCounter + 1
       /\ fibers'[currentRoot'].alternate = currentRoot
       /\ EffectsApplied(fibers', host', currentRoot')
       /\ hostAtCommit' = host'

\* A render, an updater call and a slice that does not commit leave
\* currentRoot as it is.
CurrentRootKeptOtherwise ==
    (lastEvent'.kind \in {"render", "update", "bail"} \/
     (lastEvent'.kind = "slice" /\ ~lastEvent'.commits)) => currentRoot' = currentRoot

\* C16: in every state wipRoot, when set, is another fiber than currentRoot;
\* and currentRoot changes only in a slice that commits, to the root that was
\* in progress, the host tree then having the effects of the pass applied:
\* render, updater calls and slices that do not commit leave it unchanged.
C16_RootsDistinctAndSwappedAtCommit ==
    /\ [](wipRoot # Null => wipRoot # currentRoot)
    /\ [][CurrentRootSetByCommit /\ CurrentRootKeptOtherwise]_vars

\* An update has started a pass over a committed root that itself replaced an
\* earlier committed root: both roots are set, and they are distinct fibers.
C16_Witness ==
    /\ lastEvent.kind = "update"
    /\ wipRoot # Null
    /\ currentRoot # Null
    /\ fibers[wipRoot].alternate = currentRoot
    /\ commitCounter >= 1

\* ------------------------------------------------------------------- C17
\* The tree of root is complete: every host fiber has one child fiber for each
\* child of its description, and every component fiber has its one child.
Complete(fs, root) ==
    \A n \in FiberTree(fs, root) :
      IF IsFunction(fs[n].type) THEN fs[n].child # Null
      ELSE Len(ChildChain(fs, fs[n].child)) = Len(fs[n].props.children)

\* A step in which a pass is started while another is in progress leaves the
\* new root as the pass in progress and as the next unit of work, nothing of
\* it built yet, and the host tree and currentRoot as they were.
NewPassTakesOver ==
    abandoned' > abandoned =>
       /\ wipRoot' # Null
       /\ wipRoot' \notin DOMAIN fibers
       /\ nextUnitOfWork' = wipRoot'
       /\ fibers'[wipRoot'].child = Null
       /\ host' = host
       /\ currentRoot' = currentRoot

\* A step that commits leaves as currentRoot a root with its complete tree,
\* made of fibers built after that root was: none of an abandoned pass.
CommitsCompleteTree ==
    commitCounter' > commitCounter =>
       /\ Complete(fibers', currentRoot')
       /\ \A n \in FiberTree(fibers', currentRoot') : n >= currentRoot'

\* C17: when a pass is started while another is in progress, whether by a call
\* between two slices or by a call made while a unit of work runs, the next
\* unit of work is the new root and nothing is applied to the host tree; and
\* every commit is that of the newest pass with its complete tree, no fiber of
\* an abandoned pass in it.
C17_SupersededPassDiscarded ==
    [][NewPassTakesOver /\ CommitsCompleteTree]_vars

\* A pass that superseded another between two slices has committed.
C17_BetweenSlicesWitness ==
    /\ JustCommitted
    /\ abandoned > 0
    /\ Complete(fibers, currentRoot)
    /\ \E n \in DOMAIN fibers : n < currentRoot /\ n \notin FiberTree(fibers, fibers[currentRoot].alternate)
                                   /\ fibers[n].parent # Null

\* ------------------------------------------------------------------- C18
\* Pass p has committed.
Committed(p) == \E i \in DOMAIN commitLog : commitLog[i].pass = p

\* C18: when the browser keeps granting idle periods, every pass that is in
\* progress is eventually committed, the walk over and wipRoot null again, or
\* superseded by a newer pass, whatever the deadlines of the slices.
C18_PassCommittedOrSuperseded ==
    \A p \in 1..MaxPasses :
       (passes = p /\ wipRoot # Null)
          ~> ((Committed(p) /\ nextUnitOfWork = Null /\ wipRoot = Null) \/ passes > p)

\* A pass whose walk took more than one slice has committed.
C18_Witness ==
    /\ JustCommitted
    /\ Committed(passes)
    /\ lastEvent.units < Cardinality(FiberTree(fibers, currentRoot))
    /\ lastEvent.units >= 1

RenderFrame(d) ==
    \A S \in {render(Prog, Descs[d], Container)} :
    \A root \in {Len(fibers) + 1} :
       /\ Len(S.fibers) = root
       /\ \A f \in DOMAIN fibers : S.fibers[f] = fibers[f]
       /\ S.fibers[root].dom = Container
       /\ S.fibers[root].props = [children |-> <<Descs[d]>>]
       /\ S.fibers[root].alternate = currentRoot
       /\ S.fibers[root].child = Null
       /\ S.fibers[root].parent = Null
       /\ S.fibers[root].sibling = Null
       /\ S.wipRoot = root
       /\ S.nextUnitOfWork = root
       /\ S.deletions = <<>>
       /\ S.currentRoot = currentRoot
       /\ S.host = host
       /\ S.log = <<>>
       /\ S.calls = <<>>
       /\ S.started = <<>>
       /\ ~S.thrown
       /\ S.commitCounter = commitCounter

\* C20: in every state, a call of render with any description only sets up the
\* pass (RenderFrame); and when the last step was a call of render, the
\* program is in the state that call set up: the root in progress is the
\* newest fiber, it is the next unit of work, it wraps the container and the
\* description, it has no child yet, its alternate is currentRoot, deletions
\* is empty, and the attached host tree is the one the last commit left.
C20_RenderOnlySetsUpPass ==
    /\ \A d \in DOMAIN Descs : RenderFrame(d)
    /\ lastEvent.kind = "render" =>
          /\ wipRoot = Len(fibers)
          /\ nextUnitOfWork = wipRoot
          /\ fibers[wipRoot].dom = Container
          /\ fibers[wipRoot].props = [children |-> <<Descs[lastEvent.desc]>>]
          /\ fibers[wipRoot].alternate = currentRoot
          /\ fibers[wipRoot].child = Null
          /\ deletions = <<>>
          /\ Attached(host) = Attached(hostAtCommit)
          /\ currentRoot # wipRoot

\* render was called when a tree was committed: the root in progress is a new
\* fiber whose alternate is the committed root, which is still currentRoot and
\* still has the tree of the first commit below it.
C20_Witness ==
    /\ lastEvent.kind = "render"
    /\ commitCounter = 1
    /\ currentRoot # Null
    /\ fibers[wipRoot].alternate = currentRoot
    /\ fibers[currentRoot].child # Null
    /\ fibers[wipRoot].child = Null

\* ------------------------------------------------------------------- C21
\* C21: of the host operations of a commit, none writes a property whose name
\* is an event name (on...), and none, property write or listener operation,
\* is given the children attribute.
C21_EventsRoutedToListenersOnly ==
    \A i \in DOMAIN commitOps :
       /\ commitOps[i].op = "set" => ~isEvent(commitOps[i].name)
       /\ commitOps[i].name # "children"

\* ------------------------------------------------------------------- C22
\* The fibers of the subtree of fiber d: d and everything below it.
Subtree(fs, d) == {d} \cup TreeOf(fs, fs[d].child)

\* The hook objects with a cleanup of the fibers the last commit deleted:
\* <<fiber, hook index>>.
DeletedCleanups ==
    {<<n, k>> \in (UNION {Subtree(fibers, deletions[i]) : i \in DOMAIN deletions})
                  \X (1..2) :
        k \in DOMAIN fibers[n].hooks /\ HasCleanup(fibers[n].hooks[k])}

\* The calls of cleanups the last commit made for fibers that are not of the
\* committed tree: their places in the call log.
DeletionCalls ==
    {i \in DOMAIN effectLog : /\ effectLog[i].kind = "cleanup"
                              /\ effectLog[i].fiber \notin FiberTree(fibers, currentRoot)}

\* The cleanup half of C22: after a commit, the cleanups called for deleted
\* fibers are those stored on the hook objects of the deleted fibers and of
\* the fibers below them, each called once and with no host operation of the
\* deletion before it, and no other.
C22_CleanupsOfDeletedSubtree ==
    JustCommitted =>
       /\ \A c \in DeletedCleanups :
             Cardinality({i \in DeletionCalls : /\ effectLog[i].fiber = c[1]
                                                /\ effectLog[i].hook = c[2]
                                                /\ effectLog[i].fn = fibers[c[1]].hooks[c[2]].cleanup
                                                /\ effectLog[i].hostOps = 0}) = 1
       /\ \A i \in DeletionCalls : <<effectLog[i].fiber, effectLog[i].hook>> \in DeletedCleanups

\* A commit that deleted a div with two components below it called the cleanup
\* of each.
C22_Witness ==
    /\ JustCommitted
    /\ Len(deletions) = 1
    /\ fibers[deletions[1]].type = "div"
    /\ Cardinality(DeletedCleanups) = 2
    /\ Cardinality(DeletionCalls) = 2

\* C22: after a commit, the cleanups of the deleted subtrees, and no others,
\* have been called, and the host node of each deleted fiber was removed from
\* its parent by an operation of the commit that came after those calls.
C22_CleanupsThenRemoval ==
    JustCommitted =>
       /\ C22_CleanupsOfDeletedSubtree
       /\ \A d \in DOMAIN deletions :
             HostNodeOf(fibers, deletions[d]) # Null =>
                \E o \in DOMAIN commitOps :
                   /\ commitOps[o].op = "removeChild"
                   /\ commitOps[o].target = HostNodeOf(fibers, deletions[d])
                   /\ \A i \in DeletionCalls :
                         effectLog[i].fiber \in Subtree(fibers, deletions[d])
                            => effectLog[i].hostOps < o

\* ------------------------------------------------------------------- C23
\* The description lists reconcileChildren is tried on: every list of at most
\* MaxChildren descriptions of two types that old chains have too.
ElementKinds == {createElement("h1", NoProps, <<Str("Hello World")>>),
                 createElement("h2", [style |-> Str("right")], <<>>)}
ElementLists == UNION {[1..n -> ElementKinds] : n \in 0..MaxChildren}

\* The old child chain reconcileChildren walks for fiber w.
OldChain(fs, w) ==
    IF fs[w].alternate = Null THEN <<>> ELSE ChildChain(fs, fs[fs[w].alternate].child)

\* The old fibers of chain old that elements does not match: the position has
\* no description or one of another type.
Unmatched(fs, old, elements) ==
    SelectSeq(old, LAMBDA o :
        \E i \in DOMAIN old :
           /\ old[i] = o
           /\ (i > Len(elements) \/ elements[i].type # fs[o].type))

\* What reconcileChildren(w, elements) makes of the present state: the child
\* chain of w is Len(elements) new fibers in list order, each for its
\* description; a fiber at a position the old chain has with the same type is
\* an UPDATE over the old fiber and its host node, any other is a PLACEMENT;
\* the old fibers without a match are tagged DELETION and appended to
\* deletions in chain order, once each, and nothing else is; no other fiber
\* changes.
ReconcilesTo(w, elements) ==
    \A S \in {reconcileChildren(Prog, w, elements)} :
    \A old \in {OldChain(fibers, w)} :
    \A new \in {ChildChain(S.fibers, S.fibers[w].child)} :
       /\ Len(S.fibers) = Len(fibers) + Len(elements)
       /\ new = [i \in 1..Len(elements) |-> Len(fibers) + i]
       /\ \A i \in DOMAIN new :
             /\ S.fibers[new[i]].type = elements[i].type
             /\ S.fibers[new[i]].props = elements[i].props
             /\ S.fibers[new[i]].parent = w
             /\ S.fibers[new[i]].child = Null
             /\ IF i <= Len(old) /\ fibers[old[i]].type = elements[i].type
                THEN /\ S.fibers[new[i]].effectTag = "UPDATE"
                     /\ S.fibers[new[i]].alternate = old[i]
                     /\ S.fibers[new[i]].dom = fibers[old[i]].dom
                ELSE /\ S.fibers[new[i]].effectTag = "PLACEMENT"
                     /\ S.fibers[new[i]].alternate = Null
                     /\ S.fibers[new[i]].dom = Null
       /\ S.deletions = deletions \o Unmatched(fibers, old, elements)
       /\ \A i \in DOMAIN old :
             /\ i > Len(elements) =>
                   /\ S.fibers[old[i]].effectTag = "DELETION"
                   /\ Count(S.deletions, old[i]) = 1
             /\ S.fibers[old[i]] = [fibers[old[i]] EXCEPT !.effectTag =
                   IF Count(Unmatched(fibers, old, elements), old[i]) = 1
                   THEN "DELETION" ELSE @]
       /\ \A g \in DOMAIN fibers \ (Range(old) \cup {w}) : S.fibers[g] = fibers[g]
       /\ S.fibers[w] = [fibers[w] EXCEPT !.child = IF elements = <<>> THEN Null ELSE new[1]]
       /\ S.host = host
       /\ S.log = <<>>

\* C23: for the fiber that is the next unit of work, whatever old child chain
\* it has, and for every description list, reconcileChildren ends with the
\* result ReconcilesTo describes; and the chains the passes have built so far
\* are as long as the lists they were built from.
C23_ChainMatchesList ==
    /\ nextUnitOfWork # Null => \A elements \in ElementLists :
                                   ReconcilesTo(nextUnitOfWork, elements)
    /\ \A f \in FiberTree(fibers, wipRoot) :
          (fibers[f].child # Null /\ ~IsFunction(fibers[f].type)) =>
             Len(ChildChain(fibers, fibers[f].child)) = Len(fibers[f].props.children)

\* A pass has reconciled a fiber whose old chain is longer than its list: the
\* old fiber past the end of the list is tagged DELETION and is on deletions,
\* and the fibers below it are not.
C23_Witness ==
    \E f \in FiberTree(fibers, wipRoot) :
       /\ fibers[f].child # Null
       /\ Len(OldChain(fibers, f)) > Len(ChildChain(fibers, fibers[f].child))
       /\ \E o \in Range(OldChain(fibers, f)) :
             /\ fibers[o].effectTag = "DELETION"
             /\ Count(deletions, o) = 1
             /\ fibers[o].child # Null
             /\ Count(deletions, fibers[o].child) = 0

\* ------------------------------------------------------------------- C24
\* The tree committed before the pass in progress or, when no pass is in
\* progress, before the pass committed last.
PreviousTree ==
    IF wipRoot # Null THEN FiberTree(fibers, currentRoot)
    ELSE IF currentRoot # Null THEN FiberTree(fibers, fibers[currentRoot].alternate)
    ELSE {}

\* The fibers tagged DELETION.
TaggedDeletion == {f \in DOMAIN fibers : fibers[f].effectTag = "DELETION"}

\* C24 as it was made: in every state, every fiber tagged DELETION is of the
\* previously committed tree and is on deletions, and no fiber of the tree in
\* progress is tagged DELETION or is of the previously committed tree.
C24_DeletionTagOnlyOnListedOldFibers ==
    /\ \A f \in TaggedDeletion : f \in PreviousTree /\ Count(deletions, f) >= 1
    /\ \A f \in FiberTree(fibers, wipRoot) :
          fibers[f].effectTag # "DELETION" /\ f \notin PreviousTree

\* The trees of the roots committed so far: that of currentRoot and those of
\* the roots its alternate links lead to.
RECURSIVE CommittedTrees(_, _)
CommittedTrees(fs, root) ==
    IF root = Null THEN {}
    ELSE FiberTree(fs, root) \cup CommittedTrees(fs, fs[root].alternate)

\* C24 (amended): every fiber on deletions is tagged DELETION, is there once,
\* and while the pass that listed it is in progress it is of the committed
\* tree; a fiber tagged DELETION is of a tree that was committed, the present
\* one or an earlier one, and keeps its tag when deletions is reset; no fiber
\* of the tree in progress is tagged DELETION or is of a committed tree.
C24_DeletionTagOnlyOnOldFibers ==
    /\ \A i \in DOMAIN deletions :
          /\ deletions[i] \in TaggedDeletion
          /\ Count(deletions, deletions[i]) = 1
          /\ wipRoot # Null => deletions[i] \in FiberTree(fibers, currentRoot)
    /\ \A f \in TaggedDeletion : f \in CommittedTrees(fibers, currentRoot)
    /\ \A f \in FiberTree(fibers, wipRoot) :
          fibers[f].effectTag # "DELETION" /\ f \notin CommittedTrees(fibers, currentRoot)

\* A pass that deleted a fiber has committed and render has started the next:
\* the fiber still carries its tag, deletions is empty, and the tree of the
\* fiber is no longer the committed one.
C24_Witness ==
    /\ lastEvent.kind = "render"
    /\ deletions = <<>>
    /\ \E f \in TaggedDeletion :
          /\ f \notin FiberTree(fibers, currentRoot)
          /\ f \in CommittedTrees(fibers, currentRoot)

\* ------------------------------------------------------------------- C25
\* C25 as it was made: after a commit no fiber of the committed tree carries
\* an effect tag.
C25_TagsClearedByCommit ==
    JustCommitted =>
       \A f \in FiberTree(fibers, currentRoot) :
          fibers[f].effectTag \notin {"PLACEMENT", "UPDATE", "DELETION"}

\* C25 (amended): the commit applies the operation of each tag and leaves the
\* tag where it is: when no pass is in progress, the committed root carries no
\* tag (it never had one) and every fiber below it carries the tag it was
\* committed with, UPDATE when it has an alternate and PLACEMENT when it has
\* none, never DELETION.
C25_TagsKeptByCommit ==
    (wipRoot = Null /\ currentRoot # Null) =>
       /\ fibers[currentRoot].effectTag = ""
       /\ \A f \in FiberTree(fibers, currentRoot) \ {currentRoot} :
             fibers[f].effectTag =
                IF fibers[f].alternate # Null THEN "UPDATE" ELSE "PLACEMENT"

\* A second pass has committed a tree with fibers of both tags: the updated
\* ones and one placed where the type changed.
C25_Witness ==
    /\ JustCommitted
    /\ commitCounter = 2
    /\ \E f, g \in FiberTree(fibers, currentRoot) :
          /\ fibers[f].effectTag = "UPDATE"
          /\ fibers[g].effectTag = "PLACEMENT"

\* ------------------------------------------------------------------- C26
\* The fibers of the tree rooted at root that are tagged PLACEMENT and own a
\* host node.
Placed(fs, root) ==
    {f \in FiberTree(fs, root) : fs[f].effectTag = "PLACEMENT" /\ fs[f].dom # Null}

\* The host node of the nearest ancestor of fiber f that owns one.
DomParentOf(fs, f) == fs[DomParentFiber(fs, fs[f].parent)].dom

\* The place of the insertBefore of node n in the operations of the last commit.
InsertedAt(n) ==
    CHOOSE i \in DOMAIN commitOps : commitOps[i].op = "insertBefore" /\ commitOps[i].target = n

\* What the PLACEMENT branch of commitWork makes of the present state for
\* fiber f: it does not throw; its operations are the writes and listener
\* registrations on the node of f and then, last, one insertBefore; the node
\* has every attribute of the fiber and a listener for every event attribute;
\* it is a child of the host node of the nearest ancestor that owns one, right
\* before the node of the nearest following sibling that owns one and is not a
\* PLACEMENT, or last when there is none; the other children keep their order.
PlacesAt(f) ==
    \A S \in {commitPlacement(Prog, f)} :
    \A dom \in {fibers[f].dom} :
    \A parent \in {DomParentOf(fibers, f)} :
    \A anchor \in {Anchor(fibers, fibers[f].sibling)} :
    \A kids \in {S.host[parent].children} :
       /\ ~S.thrown
       /\ S.log # <<>>
       /\ S.log[Len(S.log)] = HostOp("insertBefore", parent, dom, "")
       /\ \A i \in 1..(Len(S.log) - 1) :
             /\ S.log[i].node = dom
             /\ S.log[i].op \in {"set", "addEventListener"}
       /\ \A key \in DOMAIN fibers[f].props :
             /\ (key # "children" /\ ~isEvent(key)) =>
                   /\ key \in DOMAIN S.host[dom].attrs
                   /\ S.host[dom].attrs[key] = fibers[f].props[key]
             /\ isEvent(key) =>
                   <<EventType(key), fibers[f].props[key]>> \in S.host[dom].listeners
       /\ S.host[dom].parent = parent
       /\ Count(kids, dom) = 1
       /\ SeqRemove(kids, dom) = SeqRemove(host[parent].children, dom)
       /\ IF anchor = Null THEN kids[Len(kids)] = dom
          ELSE \E i \in 1..(Len(kids) - 1) : kids[i] = dom /\ kids[i + 1] = anchor
       /\ S.fibers = fibers

\* C26: PlacesAt holds of every PLACEMENT fiber with a host node of the pass
\* in progress whose nearest host ancestor has its node; and after a commit,
\* each such fiber of the committed tree was inserted once, after every write
\* and listener registration on its node, into the node of its nearest host
\* ancestor, before its anchor when it has one, and the nodes that follow it
\* up to the anchor, or up to the end when it has none, are nodes the commit
\* inserted after it.
C26_PlacementInsertsBeforeAnchor ==
    /\ \A f \in Placed(fibers, wipRoot) :
          DomParentOf(fibers, f) # Null => PlacesAt(f)
    /\ JustCommitted =>
          \A f \in Placed(fibers, currentRoot) :
          \A dom \in {fibers[f].dom} :
          \A anchor \in {Anchor(fibers, fibers[f].sibling)} :
          \A kids \in {host[DomParentOf(fibers, f)].children} :
             /\ Cardinality({i \in DOMAIN commitOps : /\ commitOps[i].op = "insertBefore"
                                                      /\ commitOps[i].target = dom}) = 1
             /\ commitOps[InsertedAt(dom)].node = DomParentOf(fibers, f)
             /\ \A i \in DOMAIN commitOps :
                   (commitOps[i].node = dom /\ commitOps[i].op \in {"set", "addEventListener"})
                      => i < InsertedAt(dom)
             /\ host[dom].parent = DomParentOf(fibers, f)
             /\ Count(kids, dom) = 1
             /\ anchor # Null => /\ Count(kids, anchor) = 1
                                 /\ IndexOf(kids, dom) < IndexOf(kids, anchor)
             /\ \A i \in DOMAIN kids :
                   (/\ i > IndexOf(kids, dom)
                    /\ anchor # Null => i < IndexOf(kids, anchor))
                      => \E j \in DOMAIN commitOps :
                            /\ commitOps[j].op = "insertBefore"
                            /\ commitOps[j].target = kids[i]
                            /\ j > InsertedAt(dom)

\* A commit placed a fiber before the node of a following sibling that was in
\* the host tree already, and is there still.
C26_Witness ==
    /\ JustCommitted
    /\ \E f \in Placed(fibers, currentRoot) :
          /\ Anchor(fibers, fibers[f].sibling) # Null
          /\ fibers[f].child # Null
          /\ \E i \in DOMAIN host[DomParentOf(fibers, f)].children :
                /\ host[DomParentOf(fibers, f)].children[i] = fibers[f].dom
                /\ host[DomParentOf(fibers, f)].children[i + 1]
                      = Anchor(fibers, fibers[f].sibling)

\* A commit placed a fiber that has no following sibling in the host tree,
\* after a write on its node: the node is the last child.
C26_AppendWitness ==
    /\ JustCommitted
    /\ commitCounter = 2
    /\ \E f \in Placed(fibers, currentRoot) :
          /\ Anchor(fibers, fibers[f].sibling) = Null
          /\ fibers[fibers[f].parent].alternate # Null
          /\ \E i \in DOMAIN commitOps :
                commitOps[i].op = "set" /\ commitOps[i].node = fibers[f].dom
          /\ host[DomParentOf(fibers, f)].children[Len(host[DomParentOf(fibers, f)].children)]
                = fibers[f].dom

\* ------------------------------------------------------------------- C27
\* The bindings props asks for: <<event type, callback>> for each event
\* attribute.
EventBindings(props) ==
    {<<EventType(key), props[key]>> : key \in {k \in DOMAIN props : isEvent(k)}}

WithoutKey(props, key) == [k \in DOMAIN props \ {key} |-> props[k]]

\* Props an element may have on its next render, given those it has: the same,
\* the same without the click binding, and the same with another callback for
\* it; OtherCallback is a callback no component of the model creates.
OtherCallback == Updater(0, 1, Lit(ResetValue))
NextPropsFor(props) ==
    {props,
     WithoutKey(props, "onClick"),
     ("onClick" :> OtherCallback) @@ WithoutKey(props, "onClick")}

\* The fibers of the committed tree that own a host node.
CommittedOwners == {f \in FiberTree(fibers, currentRoot) : fibers[f].dom # Null}

\* C27: in every state, for every fiber of the committed tree that owns a host
\* node, the listeners registered on the node are exactly the bindings of the
\* fiber's props; and updateDom from those props to any next props leaves
\* exactly the bindings of the next props on it: bindings that are gone or
\* changed are removed, new and changed ones added, unchanged ones kept.
C27_ListenersMatchProps ==
    \A f \in CommittedOwners :
       /\ host[fibers[f].dom].listeners = EventBindings(fibers[f].props)
       /\ \A next \in NextPropsFor(fibers[f].props) :
             \A S \in {updateDom(Prog, fibers[f].dom, fibers[f].props, next)} :
                /\ S.host[fibers[f].dom].listeners = EventBindings(next)
                /\ \A n \in DOMAIN host \ {fibers[f].dom} : S.host[n] = host[n]

\* A second pass has committed an element whose callback changed: the commit
\* removed the old listener from its node and added the new one, and the node
\* has one listener, the one of the committed props.
C27_Witness ==
    /\ JustCommitted
    /\ commitCounter >= 2
    /\ \E f \in CommittedOwners :
          /\ "onClick" \in DOMAIN fibers[f].props
          /\ fibers[f].alternate # Null
          /\ fibers[fibers[f].alternate].props.onClick # fibers[f].props.onClick
          /\ host[fibers[f].dom].listeners = {<<"click", fibers[f].props.onClick>>}
          /\ \E i, j \in DOMAIN commitOps :
                /\ i < j
                /\ commitOps[i] = HostOp("removeEventListener", fibers[f].dom, Null, "click")
                /\ commitOps[j] = HostOp("addEventListener", fibers[f].dom, Null, "click")

\* ------------------------------------------------------------------- C28
\* The fibers performUnitOfWork is applied to from state S on, in order, when
\* nothing interrupts the walk.
RECURSIVE VisitOrder(_)
VisitOrder(S) ==
    IF S.nextUnitOfWork = Null \/ S.thrown THEN <<>>
    ELSE CHOOSE r \in {<<S.nextUnitOfWork>> \o VisitOrder(T)
                       : T \in {performUnitOfWork(S, S.nextUnitOfWork)}} : TRUE

\* The fibers of the tree below and beside f in depth-first pre-order: a
\* fiber, then the subtree of its first child, then those of its siblings.
RECURSIVE PreOrder(_, _)
PreOrder(fs, f) ==
    IF f = Null THEN <<>>
    ELSE <<f>> \o PreOrder(fs, fs[f].child) \o PreOrder(fs, fs[f].sibling)

\* The fibers on the path from f to the root, f first.
RECURSIVE PathToRoot(_, _)
PathToRoot(fs, f) == IF f = Null THEN <<>> ELSE <<f>> \o PathToRoot(fs, fs[f].parent)

\* The sibling of the first fiber of path that has one, or null.
FirstSiblingOn(fs, path) ==
    IF \E i \in DOMAIN path : fs[path[i]].sibling # Null
    THEN fs[path[CHOOSE i \in DOMAIN path :
                    /\ fs[path[i]].sibling # Null
                    /\ \A j \in 1..(i - 1) : fs[path[j]].sibling = Null]].sibling
    ELSE Null

\* C28: while a pass is in progress, the fibers performUnitOfWork is applied
\* to from the start of the pass are the fibers of the tree the pass builds
\* under wipRoot, each once, in depth-first pre-order; what is left of the
\* walk in the present state, after any number of slices, is the rest of that
\* same sequence; and the unit after the next one is its first child when the
\* unit of work gives it one, and otherwise the sibling of the nearest fiber
\* on its path to the root that has one, or null.
C28_WalkIsPreOrderOnce ==
    (wipRoot # Null /\ passStart.prog.wipRoot = wipRoot) =>
       \A whole \in {VisitOrder(passStart.prog)} :
       \A rest \in {VisitOrder(Prog)} :
          /\ whole = PreOrder(Uninterrupted.fibers, wipRoot)
          /\ \A i, j \in DOMAIN whole : i # j => whole[i] # whole[j]
          /\ Range(whole) = FiberTree(Uninterrupted.fibers, wipRoot)
          /\ rest = SubSeq(whole, Len(whole) - Len(rest) + 1, Len(whole))
          /\ nextUnitOfWork # Null =>
                \A S \in {performUnitOfWork(Prog, nextUnitOfWork)} :
                   S.nextUnitOfWork =
                      IF S.fibers[nextUnitOfWork].child # Null
                      THEN S.fibers[nextUnitOfWork].child
                      ELSE FirstSiblingOn(S.fibers, PathToRoot(S.fibers, nextUnitOfWork))

\* A pass is resumed in the middle of its tree: the walk has gone down to a
\* fiber without child or sibling, and the next unit is the sibling of an
\* ancestor of it.
C28_Witness ==
    /\ lastEvent.kind = "slice"
    /\ wipRoot # Null
    /\ nextUnitOfWork # Null
    /\ \E f \in FiberTree(fibers, wipRoot) :
          /\ fibers[f].child = Null
          /\ fibers[f].sibling = Null
          /\ fibers[f].parent # Null
          /\ fibers[fibers[f].parent].sibling = nextUnitOfWork
          /\ fibers[f].dom # Null
    /\ Len(VisitOrder(Prog)) < Len(VisitOrder(passStart.prog))

\* ------------------------------------------------------------------- C29
\* The descriptions with a component that throws among their children.
FaultyDescs ==
    {d \in DOMAIN Descs :
        \E i \in DOMAIN Descs[d].props.children :
           ComponentThrows(Descs[d].props.children[i].type)}

\* The step is a slice that an exception ended: it requested no further slice.
SliceThrows == pendingSlices = 1 /\ pendingSlices' = 0

\* C29: a pass that renders the component that throws is never committed; the
\* slice in which the component throws commits nothing and leaves currentRoot,
\* the attached host tree and the root in progress as they were, the next
\* unit of work being the fiber of the component; and from then on
\* currentRoot is unchanged and the attached host tree is the one the last
\* commit left.
C29_ThrowCommitsNothing ==
    /\ [](/\ \A i \in DOMAIN commitLog : commitLog[i].desc \notin FaultyDescs
          /\ pendingSlices = 0 =>
                /\ wipRoot # Null
                /\ commitCounter = Len(commitLog)
                /\ Attached(host) = Attached(hostAtCommit))
    /\ [][SliceThrows =>
             /\ nextUnitOfWork' # Null
             /\ fibers'[nextUnitOfWork'].type = "Faulty"
             /\ wipRoot' = wipRoot
             /\ wipRoot # Null
             /\ currentRoot' = currentRoot
             /\ commitCounter' = commitCounter
             /\ commitLog' = commitLog
             /\ Attached(host') = Attached(host)
             /\ lastEvent'.kind = "slice"
             /\ ~lastEvent'.commits]_vars
    /\ [][pendingSlices = 0 =>
             /\ pendingSlices' = 0
             /\ currentRoot' = currentRoot
             /\ host' = host]_vars

\* A component threw in a pass that followed a commit, after units of work of
\* the pass had created host nodes: the committed tree is attached and the
\* new nodes are not.
C29_Witness ==
    /\ pendingSlices = 0
    /\ commitCounter = 1
    /\ currentRoot # Null
    /\ lastEvent.kind = "slice"
    /\ lastEvent.units >= 2
    /\ ~lastEvent.commits
    /\ fibers[nextUnitOfWork].type = "Faulty"
    /\ Len(host) > Cardinality(DOMAIN Attached(host))

\* ------------------------------------------------------------------- C30
\* What a slice with the given budget makes of the present state, in which it
\* finds a unit of work: it performs at least one unit, and no more than the
\* budget when the probe is one that runs out; the units it performs are the
\* next ones of the walk, and the next unit of work it leaves is the one that
\* follows them; when it performs the last unit of the walk it commits the
\* pass, and when it does not it commits nothing.
SliceDoes(budget) ==
    \A r \in {workLoop(Prog, budget)} :
    \A rest \in {VisitOrder(Prog)} :
       /\ r.units >= 1
       /\ budget >= 1 => r.units <= budget
       /\ budget = 0 => r.units = Len(rest)
       /\ r.units <= Len(rest)
       /\ IF r.units = Len(rest)
          THEN /\ r.commits
               /\ r.S.nextUnitOfWork = Null
               /\ r.S.wipRoot = Null
               /\ r.S.currentRoot = wipRoot
               /\ r.S.commitCounter = commitCounter + 1
          ELSE /\ ~r.commits
               /\ r.S.nextUnitOfWork = rest[r.units + 1]
               /\ r.S.wipRoot = wipRoot
               /\ r.S.currentRoot = currentRoot
               /\ r.S.commitCounter = commitCounter
               /\ Attached(r.S.host) = Attached(host)

\* C30: in every state with a unit of work, a slice of any budget, the one
\* whose probe reports less than 1 at once included, does what SliceDoes says;
\* and the slice that ran last, when it found a pass in progress, performed at
\* least one unit, and committed the pass if it performed the last one.
C30_SliceAdvancesAndCommitsAtEnd ==
    /\ nextUnitOfWork # Null => \A budget \in 0..MaxBudget : SliceDoes(budget)
    /\ (lastEvent.kind = "slice" /\ wipRoot # Null) =>
          /\ lastEvent.units >= 1
          /\ nextUnitOfWork # Null
          /\ ~lastEvent.commits
    /\ (lastEvent.kind = "slice" /\ lastEvent.units >= 1 /\ nextUnitOfWork = Null) =>
          /\ lastEvent.commits
          /\ wipRoot = Null

\* A slice performed one unit, which was the last of the pass, and committed:
\* the slice before it had stopped one fiber short of the end.
C30_Witness ==
    /\ lastEvent = [kind |-> "slice", units |-> 1, commits |-> TRUE]
    /\ commitCounter = 1
    /\ Cardinality(FiberTree(fibers, currentRoot)) > 2
    /\ wipRoot = Null

\* ------------------------------------------------------------------- C31
\* The scenario of the kept updater: the application mounts <App />, the user
\* clicks its bindings, and code of the application that kept the updater of
\* an earlier render (a timer an effect started, a callback handed out) calls
\* it with a function or a literal.  The updaters there are to keep are those
\* useState returned in a render that was committed.
KeptFibers ==
    {f \in CommittedTrees(fibers, currentRoot) : fibers[f].hooks # <<>>}

CallKept(f, k, action) ==
    DispatchStep(Null, <<"call", Updater(f, k, action)>>, passes <= MaxUpdates)

KeptNext ==
    \/ Mount
    \/ \E n \in HostSubtree(host, Container) : \E l \in host[n].listeners : Click(n, l)
    \/ \E f \in KeptFibers : \E k \in DOMAIN fibers[f].hooks :
          \E action \in {Fn("inc"), Lit(ResetValue)} : CallKept(f, k, action)
    \/ \E budget \in 0..MaxBudget : WorkLoop(budget)

KeptSpec == Init /\ [][KeptNext]_vars

\* The state in which the pass in progress in S, if there is one, has
\* committed without interruption.
Settled(S) == IF S.wipRoot # Null THEN workLoop(S, 0).S ELSE S

\* The value of the k-th state cell of the one Counter of the committed tree.
CellValue(S, k) ==
    LET c == CHOOSE f \in FiberTree(S.fibers, S.currentRoot) : S.fibers[f].type = "Counter"
    IN S.fibers[c].hooks[k].state

\* The state in which the application has rendered <App /> once more and that
\* pass has committed.
RenderedAgain(S) == workLoop(render(S, Descs[3], Container), 0).S

\* C31: no accepted update is lost.  In every state with a committed Counter,
\* for every updater a committed render returned (that of the committed fiber
\* or of a fiber committed earlier) and every action: when the call is not
\* bailed out, the value of the cell the next pass commits is the action
\* applied to the value that pass would have committed without the call, and
\* a pass after that one commits the same value again, not the action applied
\* once more.
C31_NoAcceptedUpdateLost ==
    \A f \in KeptFibers : \A k \in DOMAIN fibers[f].hooks : \A a \in Actions :
       \A S \in {setState(Prog, f, k, a)} :
          S # Prog =>
             \A T \in {Settled(S)} :
                /\ CellValue(T, k) = ApplyAction(CellValue(Settled(Prog), k), a)
                /\ CellValue(RenderedAgain(T), k) = CellValue(T, k)

\* What holds of the updater of the committed fiber: an accepted call of it is
\* applied once by the next pass that commits and not again by the pass after.
C31_CommittedUpdaterApplied ==
    \A f \in KeptFibers \cap FiberTree(fibers, currentRoot) :
       \A k \in DOMAIN fibers[f].hooks : \A a \in Actions :
          \A S \in {setState(Prog, f, k, a)} :
             S # Prog =>
                \A T \in {Settled(S)} :
                   /\ CellValue(T, k) = ApplyAction(CellValue(Settled(Prog), k), a)
                   /\ CellValue(RenderedAgain(T), k) = CellValue(T, k)

\* A kept updater of a fiber that is no longer the committed one was called
\* and accepted, and the pass it started has committed: the committed value is
\* the one the cell had before the call.
C31_LostWitness ==
    /\ lastEvent.kind = "slice"
    /\ lastEvent.commits
    /\ wipRoot = Null
    /\ commitCounter = 3
    /\ \E f \in KeptFibers \ FiberTree(fibers, currentRoot) :
          /\ fibers[f].hooks[1].state = 0
          /\ fibers[f].hooks[1].queue = <<Fn("inc"), Fn("inc")>>
          /\ CellValue(Prog, 1) = 1

\* ------------------------------------------------------------------- C32
\* The scenario of the effect that returns a cleanup at some runs only: the
\* application renders <Blinker dep={1} />, <Blinker dep={0} /> or
\* `updatedElement`, which has no component, in any order, at times before
\* the pass in progress has committed.
RenderBlinker(d) ==
    /\ passes <= MaxUpdates
    /\ wipRoot # Null => abandoned < MaxAbandoned
    /\ RenderStep(d)

BlinkNext ==
    \/ \E d \in {2, 9, 10} : RenderBlinker(d)
    \/ \E budget \in 0..MaxBudget : WorkLoop(budget)

BlinkSpec == Init /\ [][BlinkNext]_vars

\* The calls of cleanup functions so far whose cleanup is the one the effect
\* callback cb returned.
CallsOf(cb) == {i \in DOMAIN cleanupLog : cleanupLog[i].fn = Cleanup(cb)}

\* The effect callbacks there have been: one for each fiber and each effect its
\* render handed to useEffect.
EffectCallbacks ==
    {Callback(f, name) : f \in DOMAIN fibers, name \in {"watch", "blink"}}

\* C32: each cleanup function an effect callback returned is called at most
\* once, over every sequence of passes and deletions, whatever the later runs
\* of the effect return.
C32_CleanupCalledAtMostOnce ==
    \A cb \in EffectCallbacks : Cardinality(CallsOf(cb)) <= 1

\* The cleanup of the first run was called before the second run, which
\* returned none, and was called again by the commit after that one: before
\* the third run or when the fiber was deleted.
C32_TwiceWitness ==
    /\ commitCounter = 3
    /\ \E cb \in EffectCallbacks :
          /\ cb.name = "blink"
          /\ Cardinality(CallsOf(cb)) = 2
          /\ fibers[cb.fiber].props.dep = Num(1)

\* ------------------------------------------------------------------- C33
\* The Counter fibers of the committed tree.
CommittedCounters ==
    {f \in FiberTree(fibers, currentRoot) : fibers[f].type = "Counter"}

\* The step leaves the hook objects of the committed fiber f as they are,
\* except that an accepted call of the updater of one of them appends its
\* action to the queue of that one.
QueuesKept(f) ==
    fibers'[f].hooks =
       IF lastEvent'.kind = "update" /\ lastEvent'.fiber = f
       THEN [fibers[f].hooks EXCEPT ![lastEvent'.hook].queue = Append(@, lastEvent'.action)]
       ELSE fibers[f].hooks

\* C33: building a pass does not consume the updates queued on the state
\* cells of the committed tree.  No step, and so no slice of a pass that is
\* abandoned later, changes the state or the queue of a committed cell other
\* than by appending an accepted update; and whatever pass is in progress,
\* superseding or not, commits for every cell the committed state of the cell
\* with the whole queue applied in the order of the calls, the value that
\* results when no pass was abandoned in between.
C33_AbandonedPassConsumesNothing ==
    /\ [][\A f \in CommittedCounters : QueuesKept(f)]_vars
    /\ [](wipRoot # Null =>
            \A f \in CommittedCounters : \A k \in DOMAIN fibers[f].hooks :
               CellValue(Settled(Prog), k) =
                  FoldInOrder(fibers[f].hooks[k].state, fibers[f].hooks[k].queue))

\* A pass ran its component function on a queue of one update and was
\* abandoned for the pass of a second update, which has committed the two
\* updates applied in order to the state committed before.
C33_Witness ==
    /\ lastEvent.kind = "slice"
    /\ lastEvent.commits
    /\ abandoned = 1
    /\ \E w \in DOMAIN fibers :
          /\ fibers[w].type = "Counter"
          /\ w \notin CommittedTrees(fibers, currentRoot)
          /\ fibers[w].hooks # <<>>
          /\ fibers[w].hooks[1].state = ResetValue
          /\ \E f \in CommittedCounters :
                /\ fibers[f].alternate = fibers[w].alternate
                /\ fibers[fibers[f].alternate].hooks[1].state = 0
                /\ fibers[fibers[f].alternate].hooks[1].queue = <<Lit(ResetValue), Fn("inc")>>
                /\ fibers[f].hooks[1].state = ResetValue + 1

\* ------------------------------------------------------------------- C34
\* The scenario of the heading before a component: the application renders a
\* div with a component, with a heading before it, or with a heading of
\* another type before it, in any order.
SiblingNext ==
    \/ \E d \in {7, 11, 12} : Render(d)
    \/ \E budget \in 0..MaxBudget : WorkLoop(budget)

SiblingSpec == Init /\ [][SiblingNext]_vars

\* The host nodes of the host-owning fibers nearest at and after fiber c in
\* its child chain, component fibers looked through, in depth-first order.
RECURSIVE NearestHosts(_, _)
NearestHosts(fs, c) ==
    IF c = Null THEN <<>>
    ELSE (IF fs[c].dom # Null THEN <<fs[c].dom>> ELSE NearestHosts(fs, fs[c].child))
         \o NearestHosts(fs, fs[c].sibling)

\* The host-owning fibers of the committed tree, the root with the container
\* included.
CommittedHostFibers ==
    {f \in FiberTree(fibers, currentRoot) : fibers[f].dom # Null}

\* C34: the host children of every host node a fiber of the committed tree
\* owns are the host nodes of the host-owning fibers nearest below that fiber,
\* in depth-first order, and no others.  The host tree changes in commits
\* only, so this is stated of every state with a committed tree.
C34_HostChildrenMirrorFibers ==
    \A f \in CommittedHostFibers :
       host[fibers[f].dom].children = NearestHosts(fibers, fibers[f].child)

\* The order alone: the host children that fibers of the committed tree own,
\* left-behind nodes of deleted fibers aside, are in the depth-first order of
\* their fibers.
C34_OwnedChildrenInOrder ==
    \A f \in CommittedHostFibers :
       SeqFilter(host[fibers[f].dom].children,
                 {fibers[g].dom : g \in CommittedHostFibers})
          = NearestHosts(fibers, fibers[f].child)

\* Every host node a fiber of the committed tree owns is a child of the host
\* node of the nearest host-owning fiber above it.
C34_OwnedChildrenAttached ==
    \A f \in CommittedHostFibers :
       \A i \in DOMAIN NearestHosts(fibers, fibers[f].child) :
          Count(host[fibers[f].dom].children, NearestHosts(fibers, fibers[f].child)[i]) = 1

\* Two commits have replaced the heading before the component by one of
\* another type: the new heading is the last child of the div, after the
\* paragraph of the component and the heading left behind.
C34_MisplacedWitness ==
    /\ commitCounter = 2
    /\ wipRoot = Null
    /\ \E f \in CommittedHostFibers :
          /\ Len(NearestHosts(fibers, fibers[f].child)) = 2
          /\ Len(host[fibers[f].dom].children) = 3
          /\ host[fibers[f].dom].children[3] = NearestHosts(fibers, fibers[f].child)[1]
          /\ host[fibers[f].dom].children[2] = NearestHosts(fibers, fibers[f].child)[2]

====
